---------------------------- MODULE Spec2Model ----------------------------
(***************************************************************************)
(* Variance analysis application: ingestion of tabular budget/actual data  *)
(* (file upload, paste wizard, screenshot import, sample data, multi-file  *)
(* merge), threshold classification and the App state that holds the       *)
(* loaded dataset.                                                         *)
(*                                                                         *)
(* Strings are sequences of one-character strings, so that splitting,      *)
(* trimming, substring search, numeric parsing and joining are computed as *)
(* the code computes them.  Numbers are integers (decimal fractions in     *)
(* cells are outside the model); percentVariance is an exact rational.     *)
(***************************************************************************)
EXTENDS Integers, Sequences, FiniteSets, TLC

(***************************************************************************)
(* Characters and strings                                                  *)
(***************************************************************************)

\* The characters of the model in UTF-16 code unit order (what
\* Array.prototype.sort and String comparison use).
Ascii ==
  << "\t", "\n", " ", "\"", "$", "'", "(", ")", "+", ",", "-", ".",
     "0", "1", "2", "3", "4", "5", "6", "7", "8", "9", ":",
     "A", "B", "C", "D", "E", "F", "G", "H", "I", "J", "K", "L", "M",
     "N", "O", "P", "Q", "R", "S", "T", "U", "V", "W", "X", "Y", "Z",
     "a", "b", "c", "d", "e", "f", "g", "h", "i", "j", "k", "l", "m",
     "n", "o", "p", "q", "r", "s", "t", "u", "v", "w", "x", "y", "z",
     "|" >>

CharCode(c) == CHOOSE i \in 1..Len(Ascii) : Ascii[i] = c

\* the upper-case letters are Ascii[24..49], the lower-case ones Ascii[50..75]
LowerChar(c) ==
  IF \E i \in 24..49 : Ascii[i] = c
  THEN Ascii[(CHOOSE i \in 24..49 : Ascii[i] = c) + 26]
  ELSE c

\* String.prototype.toLowerCase
toLowerCase(s) == [i \in 1..Len(s) |-> LowerChar(s[i])]

\* String.prototype.includes
includes(s, t) ==
  \E i \in 0..(Len(s) - Len(t)) : SubSeq(s, i + 1, i + Len(t)) = t

\* String.prototype.startsWith
startsWith(s, t) == Len(t) <= Len(s) /\ SubSeq(s, 1, Len(t)) = t

\* String.prototype.replace(t, r) with a string pattern: the first occurrence
RECURSIVE replaceFirst(_, _, _)
replaceFirst(s, t, r) ==
  IF startsWith(s, t) THEN r \o SubSeq(s, Len(t) + 1, Len(s))
  ELSE IF s = <<>> THEN s
  ELSE <<Head(s)>> \o replaceFirst(Tail(s), t, r)

\* the characters of s as one message text
RECURSIVE Text(_)
Text(s) == IF s = <<>> THEN "" ELSE Head(s) \o Text(Tail(s))

\* a < b for strings (code unit order)
RECURSIVE StrLess(_, _)
StrLess(a, b) ==
  IF b = <<>> THEN FALSE
  ELSE IF a = <<>> THEN TRUE
  ELSE IF Head(a) = Head(b) THEN StrLess(Tail(a), Tail(b))
  ELSE CharCode(Head(a)) < CharCode(Head(b))

\* Array.from(set).sort() on a set of strings
RECURSIVE SortStrings(_)
SortStrings(S) ==
  IF S = {} THEN <<>>
  ELSE LET m == CHOOSE x \in S : \A y \in S \ {x} : StrLess(x, y)
       IN  <<m>> \o SortStrings(S \ {m})

WhiteSpace == {" ", "\t", "\n"}

\* String.prototype.trim
RECURSIVE TrimLeft(_)
TrimLeft(s) ==
  IF s # <<>> /\ Head(s) \in WhiteSpace THEN TrimLeft(Tail(s)) ELSE s

RECURSIVE TrimRight(_)
TrimRight(s) ==
  IF s # <<>> /\ s[Len(s)] \in WhiteSpace
  THEN TrimRight(SubSeq(s, 1, Len(s) - 1)) ELSE s

trim(s) == TrimRight(TrimLeft(s))

\* String.prototype.split with a one-character separator
RECURSIVE SplitFrom(_, _, _)
SplitFrom(s, sep, cur) ==
  IF s = <<>> THEN <<cur>>
  ELSE IF Head(s) = sep THEN <<cur>> \o SplitFrom(Tail(s), sep, <<>>)
  ELSE SplitFrom(Tail(s), sep, Append(cur, Head(s)))

split(s, sep) == SplitFrom(s, sep, <<>>)

\* Array.prototype.join
RECURSIVE join(_, _)
join(parts, sep) ==
  IF parts = <<>> THEN <<>>
  ELSE IF Len(parts) = 1 THEN parts[1]
  ELSE parts[1] \o sep \o join(Tail(parts), sep)

\* s.replace(/[...]/g, '') : delete every character of a class
RemoveChars(s, class) == SelectSeq(s, LAMBDA c : c \notin class)

\* s.replace(/^["']|["']$/g, '') : one leading and one trailing quote
StripQuotes(s) ==
  LET a == IF s # <<>> /\ Head(s) \in {"\"", "'"} THEN Tail(s) ELSE s
  IN  IF a # <<>> /\ a[Len(a)] \in {"\"", "'"}
      THEN SubSeq(a, 1, Len(a) - 1) ELSE a

(***************************************************************************)
(* Numbers                                                                 *)
(***************************************************************************)

Abs(n) == IF n < 0 THEN -n ELSE n

DigitVal(c) == CharCode(c) - CharCode("0")

RECURSIVE DigitRun(_, _, _)
\* the value of the longest digit prefix of s, and whether it is non-empty
DigitRun(s, acc, any) ==
  IF s # <<>> /\ Head(s) \in {"0", "1", "2", "3", "4", "5", "6", "7", "8", "9"}
  THEN DigitRun(Tail(s), acc * 10 + DigitVal(Head(s)), TRUE)
  ELSE [nan |-> ~any, v |-> acc]

\* parseFloat on integer text: leading white space, an optional sign, the
\* longest digit prefix; NaN when there is no digit.
parseFloat(s) ==
  LET t == TrimLeft(s)
  IN  IF t # <<>> /\ Head(t) = "-"
      THEN LET r == DigitRun(Tail(t), 0, FALSE)
           IN  [nan |-> r.nan, v |-> -r.v]
      ELSE IF t # <<>> /\ Head(t) = "+" THEN DigitRun(Tail(t), 0, FALSE)
      ELSE DigitRun(t, 0, FALSE)

RECURSIVE NatToStr(_)
NatToStr(n) ==
  IF n < 10 THEN <<Ascii[CharCode("0") + n]>>
  ELSE NatToStr(n \div 10) \o <<Ascii[CharCode("0") + (n % 10)]>>

\* String(n) for an integer
NumToStr(n) == IF n < 0 THEN <<"-">> \o NatToStr(-n) ELSE NatToStr(n)

RECURSIVE GCD(_, _)
GCD(a, b) == IF b = 0 THEN a ELSE GCD(b, a % b)

\* The rational n/d (d # 0) in lowest terms with a positive denominator.
Rat(n, d) ==
  LET g == GCD(Abs(n), Abs(d))
      s == IF d < 0 THEN -1 ELSE 1
  IN  [num |-> (s * n) \div g, den |-> Abs(d) \div g]

RatZero == [num |-> 0, den |-> 1]

\* Math.abs(x) > t for a rational x and an integer t
RatAbsGreater(x, t) == Abs(x.num) > t * x.den

(***************************************************************************)
(* Cells of raw tabular input (typeof: number, string, undefined)          *)
(***************************************************************************)

Num(n) == [t |-> "number", n |-> n, s |-> <<>>]
Str(s) == [t |-> "string", n |-> 0, s |-> s]
UndefCell == [t |-> "undefined", n |-> 0, s |-> <<>>]

\* JavaScript truthiness of a cell
Truthy(cell) ==
  \/ cell.t = "number" /\ cell.n # 0
  \/ cell.t = "string" /\ cell.s # <<>>

\* String(cell || '')
StringOrEmpty(cell) ==
  IF ~Truthy(cell) THEN <<>>
  ELSE IF cell.t = "number" THEN NumToStr(cell.n) ELSE cell.s

(***************************************************************************)
(* VarianceRow / ParsedData values                                         *)
(***************************************************************************)

\* null (findColumn) and undefined (an optional field that is absent); no
\* string of the model equals either.
Null == <<"<null>">>
Undefined == <<"<undefined>">>

\* value || '' and Boolean(value) for an optional string
IsTruthyStr(s) == s # Undefined /\ s # Null /\ s # <<>>

Range(f) == {f[i] : i \in DOMAIN f}

Min(S) == CHOOSE x \in S : \A y \in S : x <= y

Max(S) == CHOOSE x \in S : \A y \in S : y <= x

\* Math.random().toString(36).substring(2, 15): a random identifier.  Only
\* equality of identifiers is ever observed, so the outcomes of n calls are
\* enumerated up to renaming: call k returns a value not returned before
\* (the next unused label) or repeats an earlier one.
RECURSIVE IdDraws(_)
IdDraws(n) ==
  IF n = 0 THEN {<<>>}
  ELSE UNION {{Append(s, k) : k \in 1..(Cardinality(Range(s)) + 1)} :
              s \in IdDraws(n - 1)}

generateId(k) == <<"gen", k, 0>>

\* `imported-${index}-${Date.now()}`
ImportedId(index, now) == <<"imported", index, now>>

NullData == [null |-> TRUE]

(***************************************************************************)
(* utils/fileParser.ts                                                     *)
(***************************************************************************)

\* A raw row object: header -> cell; a repeated header keeps the last cell
\* written, a missing cell is undefined.
RowObj(headers, cells) ==
  [h \in Range(headers) |->
     LET i == CHOOSE j \in 1..Len(headers) :
                 headers[j] = h /\ \A k \in (j + 1)..Len(headers) : headers[k] # h
     IN  IF i <= Len(cells) THEN cells[i] ELSE UndefCell]

Lookup(row, col) == IF col \in DOMAIN row THEN row[col] ELSE UndefCell

findColumn(headers, options) ==
  LET Hits(opt) ==
        {i \in 1..Len(headers) : includes(toLowerCase(headers[i]), toLowerCase(opt))}
      found == {k \in 1..Len(options) : Hits(options[k]) # {}}
  IN  IF found = {} THEN Null
      ELSE headers[Min(Hits(options[Min(found)]))]

parseNumber(val) ==
  IF val.t = "number" THEN val.n
  ELSE IF val.t = "string"
  THEN LET cleaned == RemoveChars(val.s, {"$", ",", "(", ")"})
           num == parseFloat(cleaned)
       IN  IF num.nan THEN 0
           ELSE IF includes(val.s, <<"(">>) THEN -Abs(num.v) ELSE num.v
  ELSE 0

\* the column names processRawData looks for, per role
ColumnOptions ==
  [category |->
     << <<"c", "a", "t", "e", "g", "o", "r", "y">>,
     <<"d", "e", "s", "c", "r", "i", "p", "t", "i", "o", "n">>,
     <<"n", "a", "m", "e">>,
     <<"i", "t", "e", "m">> >>,
   budget |->
     << <<"b", "u", "d", "g", "e", "t">>,
     <<"b", "u", "d", "g", "e", "t", "e", "d">>,
     <<"p", "l", "a", "n", "n", "e", "d">> >>,
   actual |->
     << <<"a", "c", "t", "u", "a", "l">>,
     <<"a", "c", "t", "u", "a", "l", "s">>,
     <<"s", "p", "e", "n", "t">> >>,
   costCenter |->
     << <<"c", "o", "s", "t", " ", "c", "e", "n", "t", "e", "r">>,
     <<"c", "o", "s", "t", "c", "e", "n", "t", "e", "r">>,
     <<"d", "e", "p", "a", "r", "t", "m", "e", "n", "t">> >>,
   glAccount |->
     << <<"g", "l", " ", "a", "c", "c", "o", "u", "n", "t">>,
     <<"g", "l", "a", "c", "c", "o", "u", "n", "t">>,
     <<"a", "c", "c", "o", "u", "n", "t">> >>,
   period |->
     << <<"p", "e", "r", "i", "o", "d">>,
     <<"m", "o", "n", "t", "h">>,
     <<"d", "a", "t", "e">> >>]

Failure(msg) == [ok |-> FALSE, error |-> msg, data |-> NullData]
Success(d) == [ok |-> TRUE, error |-> "", data |-> d]

\* ((actual - budget) / budget) * 100, or 0 when budget is 0
PercentVariance(dollarVariance, budget) ==
  IF budget # 0 THEN Rat(dollarVariance * 100, budget) ELSE RatZero

\* the column detection of processRawData
DetectedColumns(headers) ==
  [category |-> findColumn(headers, ColumnOptions.category),
   budget |-> findColumn(headers, ColumnOptions.budget),
   actual |-> findColumn(headers, ColumnOptions.actual),
   costCenter |-> findColumn(headers, ColumnOptions.costCenter),
   glAccount |-> findColumn(headers, ColumnOptions.glAccount),
   period |-> findColumn(headers, ColumnOptions.period)]

\* the row processRawData builds from a raw row
RawRow(row, id, col, budget, actual) ==
  [id |-> generateId(id),
   category |-> StringOrEmpty(Lookup(row, col.category)),
   costCenter |-> IF col.costCenter # Null
                  THEN StringOrEmpty(Lookup(row, col.costCenter))
                  ELSE Undefined,
   glAccount |-> IF col.glAccount # Null
                 THEN StringOrEmpty(Lookup(row, col.glAccount))
                 ELSE Undefined,
   period |-> IF col.period # Null
              THEN StringOrEmpty(Lookup(row, col.period))
              ELSE Undefined,
   budget |-> budget,
   actual |-> actual,
   dollarVariance |-> actual - budget,
   percentVariance |-> PercentVariance(actual - budget, budget),
   isSignificant |-> RatAbsGreater(PercentVariance(actual - budget, budget), 10)
                     \/ Abs(actual - budget) > 50000,
   isStarred |-> FALSE,
   comments |-> <<>>,
   status |-> "new",
   owner |-> <<>>,
   rootCause |-> "",
   dueDate |-> <<>>,
   explanation |-> <<>>]

\* the rows of the raw rows kept by the filter on the category cell
RawRows(kept, ids, col) ==
  [i \in 1..Len(kept) |->
     RawRow(kept[i], ids[i], col,
            parseNumber(Lookup(kept[i], col.budget)),
            parseNumber(Lookup(kept[i], col.actual)))]

\* the ParsedData processRawData returns for its rows
RawParsedData(rows, headers, col) ==
  [rows |-> rows,
   columns |-> headers,
   hasCostCenter |-> col.costCenter # Null,
   hasGLAccount |-> col.glAccount # Null,
   hasPeriod |-> col.period # Null,
   periods |-> SortStrings({rows[i].period : i \in 1..Len(rows)}
                           \ {Undefined, <<>>})]

ProcessColumns(rawData, headers, ids, col) ==
  IF col.category = Null \/ col.budget = Null \/ col.actual = Null
  THEN Failure("Missing required columns: Category, Budget, Actual")
  ELSE Success(RawParsedData(
         RawRows(SelectSeq(rawData, LAMBDA row : Truthy(Lookup(row, col.category))),
                 ids, col),
         headers, col))

\* ids: the outcomes of the successive generateId() calls
processRawData(rawData, headers, ids) ==
  ProcessColumns(rawData, headers, ids, DetectedColumns(headers))

\* Papa.parse(file, {header: true, skipEmptyLines: true}): the library's
\* result for a sheet of text lines is the field list of the first line and
\* one row object per later line.
parseCSV(sheet, ids) ==
  IF sheet = <<>> THEN processRawData(<<>>, <<>>, ids)
  ELSE LET fields == [i \in 1..Len(sheet[1]) |-> sheet[1][i].s]
       IN  processRawData([r \in 1..(Len(sheet) - 1) |-> RowObj(fields, sheet[r + 1])],
                          fields, ids)

\* cells: the 2-D array `data` that XLSX.utils.sheet_to_json(sheet,
\* {header: 1}) gives
parseExcel(cells, ids) ==
  IF Len(cells) < 2 THEN Failure("File must have header and data rows")
  ELSE LET headers == [i \in 1..Len(cells[1]) |-> StringOrEmpty(cells[1][i])]
           rawData == [r \in 1..(Len(cells) - 1) |-> RowObj(headers, cells[r + 1])]
       IN  processRawData(rawData, headers, ids)

\* file.name.split('.').pop()?.toLowerCase()
ExtOf(name) ==
  LET parts == split(name, ".") IN toLowerCase(parts[Len(parts)])

ParseByExtension(ext, file, ids) ==
  IF ext = <<"c", "s", "v">> THEN parseCSV(file.sheet, ids)
  ELSE IF ext \in {<<"x", "l", "s", "x">>, <<"x", "l", "s">>}
  THEN parseExcel(file.sheet, ids)
  ELSE Failure("Unsupported file type. Please upload CSV or Excel files.")

parseFile(file, ids) == ParseByExtension(ExtOf(file.name), file, ids)

(***************************************************************************)
(* utils/helpers.ts                                                        *)
(***************************************************************************)

\* the classification with inclusive comparisons
applyThresholdsInclusive(rows, thresholdPercent, thresholdDollar) ==
  [i \in 1..Len(rows) |->
     [rows[i] EXCEPT !.isSignificant =
        Abs(rows[i].percentVariance.num) >= thresholdPercent * rows[i].percentVariance.den
        \/ Abs(rows[i].dollarVariance) >= thresholdDollar]]

\* the classification that flags only records not flagged before
applyThresholdsLatched(rows, thresholdPercent, thresholdDollar) ==
  [i \in 1..Len(rows) |->
     [rows[i] EXCEPT !.isSignificant =
        /\ ~rows[i].isSignificant
        /\ \/ RatAbsGreater(rows[i].percentVariance, thresholdPercent)
           \/ Abs(rows[i].dollarVariance) > thresholdDollar]]

\* a classifier that hands the records on as stored
applyThresholdsStored(rows, thresholdPercent, thresholdDollar) == rows

\* Recalculate significant items based on thresholds
applyThresholds(rows, thresholdPercent, thresholdDollar) ==
  [i \in 1..Len(rows) |->
     [rows[i] EXCEPT !.isSignificant =
        RatAbsGreater(rows[i].percentVariance, thresholdPercent)
        \/ Abs(rows[i].dollarVariance) > thresholdDollar]]

(***************************************************************************)
(* utils/sampleData.ts                                                     *)
(***************************************************************************)

\* String.prototype.split with a separator of several characters
RECURSIVE SplitStrFrom(_, _, _)
SplitStrFrom(s, sep, cur) ==
  IF s = <<>> THEN <<cur>>
  ELSE IF startsWith(s, sep)
  THEN <<cur>> \o SplitStrFrom(SubSeq(s, Len(sep) + 1, Len(s)), sep, <<>>)
  ELSE SplitStrFrom(Tail(s), sep, Append(cur, Head(s)))

SplitStr(s, sep) == SplitStrFrom(s, sep, <<>>)

\* The tables of generateSampleData, cut to the first cost center, its first
\* GL account and the first two periods.
SampleCostCenters == << <<"1", "0", "0", "1", " ", "-", " ", "M", "a", "r", "k", "e", "t", "i", "n", "g">> >>
SampleGLAccounts == << <<"5", "1", "0", "0", "0", " ", "-", " ", "A", "d", "v", "e", "r", "t", "i", "s", "i", "n", "g">> >>
SamplePeriods == << <<"2", "0", "2", "4", "-", "0", "1">>, <<"2", "0", "2", "4", "-", "0", "2">> >>

\* One row's random draws: baseBudget in 10000..109999, actual =
\* floor(baseBudget * (1 + f)) with f in [-0.2, 0.2), a status, an owner,
\* a root cause (only for explained/closed), a due date within a week of
\* today (only for new/investigating) and the wording of the explanation.
SampleDraws ==
  { [baseBudget |-> 10000, actual |-> 8500, status |-> "new",
     owner |-> <<>>, rootCause |-> "", dueDate |-> <<"2", "0", "2", "4", "-", "0", "1", "-", "0", "5">>,
     explanation |-> <<>>],
    [baseBudget |-> 100000, actual |-> 105000, status |-> "explained",
     owner |-> <<"S", "a", "r", "a", "h", " ", "C", "h", "e", "n">>, rootCause |-> "timing", dueDate |-> <<>>,
     explanation |-> <<"T", "i", "m", "i", "n", "g", " ", "v", "a", "r", "i", "a", "n", "c", "e", " ", "d", "u", "e", " ", "t", "o", " ", "d", "e", "l", "a", "y", "e", "d", " ", "a", "c", "t", "i", "v", "i", "t", "y", ".">>] }

generateSampleData(draws, ids) ==
  LET n == Len(SamplePeriods)
      Row(k) ==
        LET costCenter == SampleCostCenters[1]
            glAccount == SampleGLAccounts[1]
            d == draws[k]
            parts == SplitStr(glAccount, <<" ", "-", " ">>)
            dollarVariance == d.actual - d.baseBudget
            percentVariance ==
              IF d.baseBudget # 0
              THEN Rat((d.actual - d.baseBudget) * 100, d.baseBudget)
              ELSE RatZero
        IN  [id |-> generateId(ids[k]),
             category |-> IF Len(parts) >= 2 /\ parts[2] # <<>>
                          THEN parts[2] ELSE glAccount,
             costCenter |-> costCenter,
             glAccount |-> glAccount,
             period |-> SamplePeriods[k],
             budget |-> d.baseBudget,
             actual |-> d.actual,
             dollarVariance |-> dollarVariance,
             percentVariance |-> percentVariance,
             isSignificant |-> RatAbsGreater(percentVariance, 10)
                               \/ Abs(dollarVariance) > 50000,
             isStarred |-> FALSE,
             comments |-> <<>>,
             status |-> d.status,
             owner |-> d.owner,
             rootCause |-> d.rootCause,
             dueDate |-> d.dueDate,
             explanation |-> d.explanation]
  IN  [rows |-> [k \in 1..n |-> Row(k)],
       columns |-> << <<"C", "a", "t", "e", "g", "o", "r", "y">>,
                    <<"C", "o", "s", "t", " ", "C", "e", "n", "t", "e", "r">>,
                    <<"G", "L", " ", "A", "c", "c", "o", "u", "n", "t">>,
                    <<"P", "e", "r", "i", "o", "d">>,
                    <<"B", "u", "d", "g", "e", "t">>,
                    <<"A", "c", "t", "u", "a", "l">> >>,
       hasCostCenter |-> TRUE,
       hasGLAccount |-> TRUE,
       hasPeriod |-> TRUE,
       periods |-> SamplePeriods]

(***************************************************************************)
(* components/ImportWizard.tsx                                             *)
(***************************************************************************)

COMMON_COLUMN_NAMES ==
  << [field |-> "category", aliases |-> << <<"c", "a", "t", "e", "g", "o", "r", "y">>,
          <<"d", "e", "s", "c", "r", "i", "p", "t", "i", "o", "n">>,
          <<"n", "a", "m", "e">>,
          <<"a", "c", "c", "o", "u", "n", "t">>,
          <<"l", "i", "n", "e", " ", "i", "t", "e", "m">>,
          <<"i", "t", "e", "m">>,
          <<"g", "l", " ", "d", "e", "s", "c", "r", "i", "p", "t", "i", "o", "n">>,
          <<"a", "c", "c", "o", "u", "n", "t", " ", "n", "a", "m", "e">> >>],
     [field |-> "budget", aliases |-> << <<"b", "u", "d", "g", "e", "t">>,
          <<"b", "u", "d", "g", "e", "t", "e", "d">>,
          <<"p", "l", "a", "n", "n", "e", "d">>,
          <<"p", "l", "a", "n">>,
          <<"f", "o", "r", "e", "c", "a", "s", "t">>,
          <<"t", "a", "r", "g", "e", "t">>,
          <<"a", "n", "n", "u", "a", "l", " ", "b", "u", "d", "g", "e", "t">>,
          <<"y", "t", "d", " ", "b", "u", "d", "g", "e", "t">> >>],
     [field |-> "actual", aliases |-> << <<"a", "c", "t", "u", "a", "l">>,
          <<"a", "c", "t", "u", "a", "l", "s">>,
          <<"s", "p", "e", "n", "t">>,
          <<"y", "t", "d", " ", "a", "c", "t", "u", "a", "l">>,
          <<"y", "t", "d", " ", "a", "c", "t", "u", "a", "l", "s">>,
          <<"c", "u", "r", "r", "e", "n", "t">>,
          <<"r", "e", "a", "l">> >>],
     [field |-> "costCenter", aliases |-> << <<"c", "o", "s", "t", " ", "c", "e", "n", "t", "e", "r">>,
          <<"c", "o", "s", "t", "c", "e", "n", "t", "e", "r">>,
          <<"d", "e", "p", "a", "r", "t", "m", "e", "n", "t">>,
          <<"d", "e", "p", "t">>,
          <<"d", "i", "v", "i", "s", "i", "o", "n">>,
          <<"b", "u", "s", "i", "n", "e", "s", "s", " ", "u", "n", "i", "t">>,
          <<"b", "u">> >>],
     [field |-> "glAccount", aliases |-> << <<"g", "l", " ", "a", "c", "c", "o", "u", "n", "t">>,
          <<"g", "l", "a", "c", "c", "o", "u", "n", "t">>,
          <<"g", "l", " ", "c", "o", "d", "e">>,
          <<"a", "c", "c", "o", "u", "n", "t", " ", "c", "o", "d", "e">>,
          <<"g", "l">>,
          <<"a", "c", "c", "o", "u", "n", "t", " ", "n", "u", "m", "b", "e", "r">>,
          <<"a", "c", "c", "t">> >>],
     [field |-> "period", aliases |-> << <<"p", "e", "r", "i", "o", "d">>,
          <<"m", "o", "n", "t", "h">>,
          <<"d", "a", "t", "e">>,
          <<"f", "i", "s", "c", "a", "l", " ", "p", "e", "r", "i", "o", "d">>,
          <<"q", "u", "a", "r", "t", "e", "r">>,
          <<"y", "e", "a", "r">> >>] >>

\* { category: '', budget: '', actual: '' }: the optional roles are absent
EmptyMapping ==
  [category |-> <<>>, budget |-> <<>>, actual |-> <<>>,
   costCenter |-> Undefined, glAccount |-> Undefined, period |-> Undefined]

\* the auto-detection loop of parseClipboardText: for each header in order,
\* the first field one of whose aliases the lower-cased header contains is
\* set to that header
RECURSIVE AutoMap(_, _)
AutoMap(headers, m) ==
  IF headers = <<>> THEN m
  ELSE LET header == Head(headers)
           lowerHeader == toLowerCase(header)
           Matches(e) == \E a \in 1..Len(e.aliases) : includes(lowerHeader, e.aliases[a])
           hit == {k \in 1..Len(COMMON_COLUMN_NAMES) : Matches(COMMON_COLUMN_NAMES[k])}
       IN  IF hit = {} THEN AutoMap(Tail(headers), m)
           ELSE AutoMap(Tail(headers),
                        [m EXCEPT ![COMMON_COLUMN_NAMES[Min(hit)].field] = header])

WizardFailure(msg) ==
  [ok |-> FALSE, error |-> msg, headers |-> <<>>, rows |-> <<>>, mapping |-> EmptyMapping]

parseClipboardText(text) ==
  LET lines == split(trim(text), "\n")
      firstLine == lines[1]
      delimiter == IF includes(firstLine, <<"\t">>) THEN "\t" ELSE ","
      Fields(line) ==
        LET raw == split(line, delimiter)
        IN  [i \in 1..Len(raw) |-> StripQuotes(trim(raw[i]))]
      headers == Fields(firstLine)
      Accepted(i) ==
        LET values == Fields(lines[i])
        IN  Len(values) = Len(headers) /\ \E j \in 1..Len(values) : values[j] # <<>>
      keptIdx == SelectSeq([i \in 1..(Len(lines) - 1) |-> i + 1], Accepted)
      rows == [k \in 1..Len(keptIdx) |->
                 LET values == Fields(lines[keptIdx[k]])
                 IN  RowObj(headers, [j \in 1..Len(values) |-> Str(values[j])])]
  IN  IF Len(lines) < 2
      THEN WizardFailure("Need at least a header row and one data row")
      ELSE IF Len(rows) = 0 THEN WizardFailure("No valid data rows found")
      ELSE [ok |-> TRUE, error |-> "", headers |-> headers, rows |-> rows,
            mapping |-> AutoMap(headers, EmptyMapping)]

\* a validation that asks for the category role only
validateMappingCategoryOnly(mapping) == mapping.category # <<>>

validateMapping(mapping) ==
  mapping.category # <<>> /\ mapping.budget # <<>> /\ mapping.actual # <<>>

\* parseFloat(cell?.replace(/[$,]/g, '') || '0') || 0
WizardNumber(cell) ==
  LET cleaned == IF cell.t = "undefined" THEN <<>>
                 ELSE RemoveChars(cell.s, {"$", ","})
      num == parseFloat(IF cleaned = <<>> THEN <<"0">> ELSE cleaned)
  IN  IF num.nan THEN 0 ELSE num.v

\* row[col] for an optional column of a row of strings
OptionalCell(cell) == IF cell.t = "undefined" THEN Undefined ELSE cell.s

\* the distinct truthy values of a sequence in first-occurrence order
\* ([...new Set(xs.filter(Boolean))])
RECURSIVE UniqueTruthy(_, _)
UniqueTruthy(xs, seen) ==
  IF xs = <<>> THEN <<>>
  ELSE IF IsTruthyStr(Head(xs)) /\ Head(xs) \notin seen
  THEN <<Head(xs)>> \o UniqueTruthy(Tail(xs), seen \cup {Head(xs)})
  ELSE UniqueTruthy(Tail(xs), seen)

\* The ParsedData value handleImport hands to onImport; nows[i] is Date.now()
\* when row i is built.
WizardImportData(parsedRows, detectedColumns, mapping, nows) ==
  LET Build(i) ==
        LET row == parsedRows[i]
            index == i - 1
            budget == WizardNumber(Lookup(row, mapping.budget))
            actual == WizardNumber(Lookup(row, mapping.actual))
            dollarVariance == actual - budget
            percentVariance ==
              IF budget # 0 THEN Rat(dollarVariance * 100, budget) ELSE RatZero
            cat == Lookup(row, mapping.category)
        IN  [id |-> ImportedId(index, nows[i]),
             category |-> IF Truthy(cat) THEN cat.s
                          ELSE <<"R", "o", "w", " ">> \o NumToStr(index + 1),
             costCenter |-> IF IsTruthyStr(mapping.costCenter)
                            THEN OptionalCell(Lookup(row, mapping.costCenter))
                            ELSE Undefined,
             glAccount |-> IF IsTruthyStr(mapping.glAccount)
                           THEN OptionalCell(Lookup(row, mapping.glAccount))
                           ELSE Undefined,
             period |-> IF IsTruthyStr(mapping.period)
                        THEN OptionalCell(Lookup(row, mapping.period))
                        ELSE Undefined,
             budget |-> budget,
             actual |-> actual,
             dollarVariance |-> dollarVariance,
             percentVariance |-> percentVariance,
             isSignificant |-> FALSE,
             isStarred |-> FALSE,
             comments |-> <<>>,
             status |-> "new",
             owner |-> <<>>,
             rootCause |-> "",
             dueDate |-> <<>>,
             explanation |-> <<>>]
      rows == [i \in 1..Len(parsedRows) |-> Build(i)]
  IN  [rows |-> rows,
       columns |-> detectedColumns,
       hasCostCenter |-> IsTruthyStr(mapping.costCenter),
       hasGLAccount |-> IsTruthyStr(mapping.glAccount),
       hasPeriod |-> IsTruthyStr(mapping.period),
       periods |-> IF IsTruthyStr(mapping.period)
                   THEN UniqueTruthy([i \in 1..Len(rows) |-> rows[i].period], {})
                   ELSE <<>>]

(***************************************************************************)
(* components/ScreenshotImport.tsx                                         *)
(***************************************************************************)

\* headers.findIndex(h => h.includes(a) || h.includes(b) ...): the 1-based
\* index of the first header containing one of the words, 0 for -1
findIndexIncludes(headers, words) ==
  LET hit == {i \in 1..Len(headers) : \E w \in words : includes(headers[i], w)}
  IN  IF hit = {} THEN 0 ELSE Min(hit)

\* values[idx] of a row of strings: undefined when idx is -1 or past the end
ValueAt(values, idx) ==
  IF idx >= 1 /\ idx <= Len(values) THEN Str(values[idx]) ELSE UndefCell

\* the words parseCSVToData looks for in the lower-cased headers, per role
ScreenshotWords ==
  [category |-> {<<"c", "a", "t", "e", "g", "o", "r", "y">>, <<"d", "e", "s", "c", "r", "i", "p", "t", "i", "o", "n">>, <<"n", "a", "m", "e">>, <<"i", "t", "e", "m">>},
   budget |-> {<<"b", "u", "d", "g", "e", "t">>, <<"p", "l", "a", "n">>},
   actual |-> {<<"a", "c", "t", "u", "a", "l">>, <<"s", "p", "e", "n", "t">>},
   costCenter |-> {<<"c", "o", "s", "t">>, <<"d", "e", "p", "a", "r", "t", "m", "e", "n", "t">>, <<"c", "e", "n", "t", "e", "r">>},
   glAccount |-> {<<"g", "l">>, <<"a", "c", "c", "o", "u", "n", "t">>},
   period |-> {<<"p", "e", "r", "i", "o", "d">>, <<"m", "o", "n", "t", "h">>}]

\* the column detection of parseCSVToData over the lower-cased headers
DetectedIndexes(headers) ==
  [category |-> findIndexIncludes(headers, ScreenshotWords.category),
   budget |-> findIndexIncludes(headers, ScreenshotWords.budget),
   actual |-> findIndexIncludes(headers, ScreenshotWords.actual),
   costCenter |-> findIndexIncludes(headers, ScreenshotWords.costCenter),
   glAccount |-> findIndexIncludes(headers, ScreenshotWords.glAccount),
   period |-> findIndexIncludes(headers, ScreenshotWords.period)]

\* lines[i].split(',').map(v => v.trim())
CsvValues(line) ==
  [j \in 1..Len(split(line, ",")) |-> trim(split(line, ",")[j])]

\* the row parseCSVToData builds from the values of line i (0-based)
CsvRow(values, i, id, idx, budget, actual) ==
  [id |-> generateId(id),
   category |-> IF Truthy(ValueAt(values, idx.category))
                THEN ValueAt(values, idx.category).s
                ELSE <<"R", "o", "w", " ">> \o NumToStr(i),
   costCenter |-> IF idx.costCenter # 0
                  THEN OptionalCell(ValueAt(values, idx.costCenter))
                  ELSE Undefined,
   glAccount |-> IF idx.glAccount # 0
                 THEN OptionalCell(ValueAt(values, idx.glAccount))
                 ELSE Undefined,
   period |-> IF idx.period # 0
              THEN OptionalCell(ValueAt(values, idx.period))
              ELSE Undefined,
   budget |-> budget,
   actual |-> actual,
   dollarVariance |-> actual - budget,
   percentVariance |-> PercentVariance(actual - budget, budget),
   isSignificant |-> RatAbsGreater(PercentVariance(actual - budget, budget), 10)
                     \/ Abs(actual - budget) > 50000,
   isStarred |-> FALSE,
   comments |-> <<>>,
   status |-> "new",
   owner |-> <<>>,
   rootCause |-> "",
   dueDate |-> <<>>,
   explanation |-> <<>>]

\* the rows of the value lists kept by the loop (those of 3 values or more);
\* kept[k].i is the 0-based line index
CsvRows(kept, ids, idx) ==
  [k \in 1..Len(kept) |->
     CsvRow(kept[k].values, kept[k].i, ids[k], idx,
            WizardNumber(ValueAt(kept[k].values, idx.budget)),
            WizardNumber(ValueAt(kept[k].values, idx.actual)))]

CsvParsedData(rows, headers, idx) ==
  [rows |-> rows,
   columns |-> headers,
   hasCostCenter |-> idx.costCenter # 0,
   hasGLAccount |-> idx.glAccount # 0,
   hasPeriod |-> idx.period # 0,
   periods |-> SortStrings({p \in {rows[k].period : k \in 1..Len(rows)} :
                              IsTruthyStr(p)})]

ParseCsvLines(lines, headers, ids, idx) ==
  IF idx.category = 0 \/ idx.budget = 0 \/ idx.actual = 0
  THEN Failure("Could not identify Category, Budget, and Actual columns in extracted data")
  ELSE Success(CsvParsedData(
         CsvRows(SelectSeq([i \in 1..(Len(lines) - 1) |->
                              [i |-> i, values |-> CsvValues(lines[i + 1])]],
                           LAMBDA line : Len(line.values) >= 3),
                 ids, idx),
         headers, idx))

ParseCsvHeaders(lines, headers, ids) ==
  ParseCsvLines(lines, headers, ids, DetectedIndexes(headers))

CsvHeaders(line) ==
  [i \in 1..Len(split(line, ",")) |-> toLowerCase(trim(split(line, ",")[i]))]

parseCSVToData(csv, ids) ==
  ParseCsvHeaders(split(trim(csv), "\n"),
                  CsvHeaders(split(trim(csv), "\n")[1]), ids)

\* What ScreenshotImport.handleImport does with the extracted CSV: the
\* dataset handed to onImport, or the error it sets.
NonEmptyResult(r) ==
  IF r.ok /\ Len(r.data.rows) = 0 THEN Failure("No valid data rows found")
  ELSE r

ScreenshotImportData(extractedCSV, ids) ==
  NonEmptyResult(parseCSVToData(extractedCSV, ids))

(***************************************************************************)
(* components/MultiFileUpload.tsx: mergeFiles                              *)
(***************************************************************************)

\* [row.category, row.costCenter, row.glAccount, row.period]
\*   .filter(Boolean).join('|')
JoinKey(row) ==
  join(SelectSeq(<<row.category, row.costCenter, row.glAccount, row.period>>,
                 IsTruthyStr),
       <<"|">>)

\* Array.from(new Set(...)) over a sequence: first occurrences, in order
RECURSIVE Unique(_, _)
Unique(xs, seen) ==
  IF xs = <<>> THEN <<>>
  ELSE IF Head(xs) \in seen THEN Unique(Tail(xs), seen)
  ELSE <<Head(xs)>> \o Unique(Tail(xs), seen \cup {Head(xs)})

RECURSIVE Flatten(_)
Flatten(seqs) == IF seqs = <<>> THEN <<>> ELSE Head(seqs) \o Flatten(Tail(seqs))

ParsedFiles(uploaded) ==
  SelectSeq(uploaded, LAMBDA f : f.status = "parsed" /\ f.data # NullData)

\* a stack branch that takes the rows of the files newest first
StackMergeNewestFirst(parsedFiles, ids) ==
  LET sourceRows == Flatten([k \in 1..Len(parsedFiles) |->
                                      parsedFiles[Len(parsedFiles) + 1 - k].data.rows])
      allRows == [i \in 1..Len(sourceRows) |->
                    [sourceRows[i] EXCEPT !.id = generateId(ids[i])]]
      allPeriods == UNION {Range(parsedFiles[k].data.periods) : k \in 1..Len(parsedFiles)}
      allColumns == Unique(Flatten([k \in 1..Len(parsedFiles) |->
                                      parsedFiles[k].data.columns]), {})
  IN  [rows |-> allRows,
       columns |-> allColumns,
       hasCostCenter |-> \E k \in 1..Len(parsedFiles) : parsedFiles[k].data.hasCostCenter,
       hasGLAccount |-> \E k \in 1..Len(parsedFiles) : parsedFiles[k].data.hasGLAccount,
       hasPeriod |-> \E k \in 1..Len(parsedFiles) : parsedFiles[k].data.hasPeriod,
       periods |-> SortStrings(allPeriods)]

\* The stack branch; ids: the outcomes of the generateId() calls in order.
StackMerge(parsedFiles, ids) ==
  LET sourceRows == Flatten([k \in 1..Len(parsedFiles) |-> parsedFiles[k].data.rows])
      allRows == [i \in 1..Len(sourceRows) |->
                    [sourceRows[i] EXCEPT !.id = generateId(ids[i])]]
      allPeriods == UNION {Range(parsedFiles[k].data.periods) : k \in 1..Len(parsedFiles)}
      allColumns == Unique(Flatten([k \in 1..Len(parsedFiles) |->
                                      parsedFiles[k].data.columns]), {})
  IN  [rows |-> allRows,
       columns |-> allColumns,
       hasCostCenter |-> \E k \in 1..Len(parsedFiles) : parsedFiles[k].data.hasCostCenter,
       hasGLAccount |-> \E k \in 1..Len(parsedFiles) : parsedFiles[k].data.hasGLAccount,
       hasPeriod |-> \E k \in 1..Len(parsedFiles) : parsedFiles[k].data.hasPeriod,
       periods |-> SortStrings(allPeriods)]

\* the rows of the actual file that set actualMap's entry for a key
Holders(key, actualRows) ==
  {j \in 1..Len(actualRows) : JoinKey(actualRows[j]) = key}

\* a lookup that takes a missing actual as 0
ActualForZeroFill(row, actualRows) ==
  IF Holders(JoinKey(row), actualRows) # {}
  THEN actualRows[Max(Holders(JoinKey(row), actualRows))].actual
  ELSE 0

\* actualMap.get(key) ?? row.budget: the value set last for the key of the
\* row, the budget if no row of the actual file has the key
ActualFor(row, actualRows) ==
  IF Holders(JoinKey(row), actualRows) # {}
  THEN actualRows[Max(Holders(JoinKey(row), actualRows))].actual
  ELSE row.budget

\* the budget + actual branch that keeps the budget file's dollarVariance
BudgetActualMergeStale(parsedFiles, ids) ==
  LET budgetFile == parsedFiles[1].data
      actualFile == parsedFiles[2].data
      Merged(i) ==
        LET row == budgetFile.rows[i]
            actual == ActualFor(row, actualFile.rows)
            dollarVariance == actual - row.budget
            percentVariance ==
              IF row.budget # 0 THEN Rat(dollarVariance * 100, row.budget) ELSE RatZero
        IN  [row EXCEPT !.id = generateId(ids[i]),
                        !.actual = actual,
                        !.percentVariance = percentVariance,
                        !.isSignificant = RatAbsGreater(percentVariance, 10)
                                          \/ Abs(dollarVariance) > 50000]
  IN  [budgetFile EXCEPT !.rows = [i \in 1..Len(budgetFile.rows) |-> Merged(i)]]

\* The budget + actual branch (first parsed file = budget, second = actual).
BudgetActualMerge(parsedFiles, ids) ==
  LET budgetFile == parsedFiles[1].data
      actualFile == parsedFiles[2].data
      Merged(i) ==
        LET row == budgetFile.rows[i]
            actual == ActualFor(row, actualFile.rows)
            dollarVariance == actual - row.budget
            percentVariance ==
              IF row.budget # 0 THEN Rat(dollarVariance * 100, row.budget) ELSE RatZero
        IN  [row EXCEPT !.id = generateId(ids[i]),
                        !.actual = actual,
                        !.dollarVariance = dollarVariance,
                        !.percentVariance = percentVariance,
                        !.isSignificant = RatAbsGreater(percentVariance, 10)
                                          \/ Abs(dollarVariance) > 50000]
  IN  [budgetFile EXCEPT !.rows = [i \in 1..Len(budgetFile.rows) |-> Merged(i)]]

\* a mergeFiles that returns an empty dataset when no file is parsed
mergeFilesEmptyOnNone(uploaded, strategy, ids) ==
  LET parsedFiles == ParsedFiles(uploaded)
  IN  IF Len(parsedFiles) = 0
      THEN [rows |-> <<>>, columns |-> <<>>, hasCostCenter |-> FALSE,
            hasGLAccount |-> FALSE, hasPeriod |-> FALSE, periods |-> <<>>]
      ELSE IF Len(parsedFiles) = 1 THEN parsedFiles[1].data
      ELSE IF strategy = "stack" THEN StackMerge(parsedFiles, ids)
      ELSE BudgetActualMerge(parsedFiles, ids)

\* mergeFiles(): NullData stands for the null result
mergeFiles(uploaded, strategy, ids) ==
  LET parsedFiles == ParsedFiles(uploaded)
  IN  IF Len(parsedFiles) = 0 THEN NullData
      ELSE IF Len(parsedFiles) = 1 THEN parsedFiles[1].data
      ELSE IF strategy = "stack" THEN StackMerge(parsedFiles, ids)
      ELSE BudgetActualMerge(parsedFiles, ids)

\* the number of generateId() calls mergeFiles makes
MergeIdCount(uploaded, strategy) ==
  LET parsedFiles == ParsedFiles(uploaded)
  IN  IF Len(parsedFiles) < 2 THEN 0
      ELSE IF strategy = "stack"
      THEN Len(Flatten([k \in 1..Len(parsedFiles) |-> parsedFiles[k].data.rows]))
      ELSE Len(parsedFiles[1].data.rows)

(***************************************************************************)
(* utils/helpers.ts: filterData                                            *)
(***************************************************************************)

\* a filter whose empty lists match no record
filterDataEmptyExcludes(rows, filterState) ==
  SelectSeq(rows, LAMBDA row :
    /\ row.costCenter \in Range(filterState.costCenters)
    /\ row.glAccount \in Range(filterState.glAccounts)
    /\ row.period \in Range(filterState.periods)
    /\ row.status \in Range(filterState.statuses)
    /\ row.owner \in Range(filterState.owners)
    /\ ~(filterState.showOnlySignificant /\ ~row.isSignificant)
    /\ ~(filterState.showOnlyStarred /\ ~row.isStarred))

filterData(rows, filterState) ==
  LET Passes(row) ==
        LET text == toLowerCase(join(SelectSeq(<<row.category, row.costCenter,
                                                 row.glAccount, row.owner,
                                                 row.explanation>>, IsTruthyStr),
                                     <<" ">>))
        IN  /\ filterState.search # <<>> => includes(text, toLowerCase(filterState.search))
            /\ ~(/\ Len(filterState.costCenters) > 0
                 /\ IsTruthyStr(row.costCenter)
                 /\ row.costCenter \notin Range(filterState.costCenters))
            /\ ~(/\ Len(filterState.glAccounts) > 0
                 /\ IsTruthyStr(row.glAccount)
                 /\ row.glAccount \notin Range(filterState.glAccounts))
            /\ ~(/\ Len(filterState.periods) > 0
                 /\ IsTruthyStr(row.period)
                 /\ row.period \notin Range(filterState.periods))
            /\ ~(Len(filterState.statuses) > 0 /\ row.status \notin Range(filterState.statuses))
            /\ ~(Len(filterState.owners) > 0 /\ row.owner \notin Range(filterState.owners))
            /\ ~(filterState.showOnlySignificant /\ ~row.isSignificant)
            /\ ~(filterState.showOnlyStarred /\ ~row.isStarred)
  IN  SelectSeq(rows, Passes)

(***************************************************************************)
(* utils/helpers.ts: groupData                                             *)
(***************************************************************************)

Unassigned == <<"U", "n", "a", "s", "s", "i", "g", "n", "e", "d">>

\* row.costCenter || 'Unassigned', row.glAccount || 'Unassigned'
GroupKey(row, groupBy) ==
  LET v == IF groupBy = "costCenter" THEN row.costCenter ELSE row.glAccount
  IN  IF IsTruthyStr(v) THEN v ELSE Unassigned

\* the keys of the Map in insertion order
GroupKeys(rows, groupBy) ==
  Unique([k \in 1..Len(rows) |-> GroupKey(rows[k], groupBy)], {})

\* groupRows.reduce((sum, r) => sum + r.budget, 0), and the same for actual
RECURSIVE SumBudget(_)
SumBudget(rows) == IF rows = <<>> THEN 0 ELSE Head(rows).budget + SumBudget(Tail(rows))

RECURSIVE SumActual(_)
SumActual(rows) == IF rows = <<>> THEN 0 ELSE Head(rows).actual + SumActual(Tail(rows))

\* a group whose percentage is taken from its first member
GroupOfFirstMember(key, groupRows) ==
  [key |-> key, label |-> key, rows |-> groupRows,
   totalBudget |-> SumBudget(groupRows),
   totalActual |-> SumActual(groupRows),
   totalDollarVariance |-> SumActual(groupRows) - SumBudget(groupRows),
   totalPercentVariance |-> groupRows[1].percentVariance,
   isExpanded |-> FALSE]

\* the GroupedData object of one Map entry
GroupOf(key, groupRows) ==
  [key |-> key, label |-> key, rows |-> groupRows,
   totalBudget |-> SumBudget(groupRows),
   totalActual |-> SumActual(groupRows),
   totalDollarVariance |-> SumActual(groupRows) - SumBudget(groupRows),
   totalPercentVariance |->
     IF SumBudget(groupRows) # 0
     THEN Rat((SumActual(groupRows) - SumBudget(groupRows)) * 100, SumBudget(groupRows))
     ELSE RatZero,
   isExpanded |-> FALSE]

\* a sort step that puts a group before the groups it ties with
InsertGroupBeforeTies(sorted, g) ==
  LET n == Cardinality({i \in 1..Len(sorted) :
                          Abs(sorted[i].totalDollarVariance) > Abs(g.totalDollarVariance)})
  IN  SubSeq(sorted, 1, n) \o <<g>> \o SubSeq(sorted, n + 1, Len(sorted))

\* Array.prototype.sort with the comparator |b| - |a| is stable: g goes
\* behind every group that does not compare after it
InsertGroup(sorted, g) ==
  LET n == Cardinality({i \in 1..Len(sorted) :
                          Abs(sorted[i].totalDollarVariance) >= Abs(g.totalDollarVariance)})
  IN  SubSeq(sorted, 1, n) \o <<g>> \o SubSeq(sorted, n + 1, Len(sorted))

RECURSIVE SortGroups(_)
SortGroups(groups) ==
  IF groups = <<>> THEN <<>>
  ELSE InsertGroup(SortGroups(SubSeq(groups, 1, Len(groups) - 1)), groups[Len(groups)])

groupData(rows, groupBy) ==
  LET keys == GroupKeys(rows, groupBy)
  IN  SortGroups([k \in 1..Len(keys) |->
                    GroupOf(keys[k],
                            SelectSeq(rows, LAMBDA r : GroupKey(r, groupBy) = keys[k]))])

(***************************************************************************)
(* Inputs of the model                                                     *)
(***************************************************************************)

BudgetCsv ==
  [name |-> <<"b", "u", "d", "g", "e", "t", ".", "c", "s", "v">>,
   sheet |-> << <<Str(<<"C", "a", "t", "e", "g", "o", "r", "y">>), Str(<<"B", "u", "d", "g", "e", "t">>), Str(<<"A", "c", "t", "u", "a", "l">>)>>,
               <<Str(<<"R", "e", "n", "t">>), Str(<<"1", "0", "0", "0">>), Str(<<"1", "2", "0", "0">>)>>,
               <<Str(<<"C", "l", "o", "u", "d">>), Str(<<"$", "1", ",", "0", "0", "0", ",", "0", "0", "0">>), Str(<<"$", "1", ",", "0", "6", "0", ",", "0", "0", "0">>)>> >>]

DeptXlsx ==
  [name |-> <<"d", "e", "p", "t", ".", "x", "l", "s", "x">>,
   sheet |-> << <<Str(<<"I", "t", "e", "m">>), Str(<<"D", "e", "p", "a", "r", "t", "m", "e", "n", "t">>), Str(<<"M", "o", "n", "t", "h">>), Str(<<"P", "l", "a", "n", "n", "e", "d">>), Str(<<"S", "p", "e", "n", "t">>)>>,
               <<Str(<<"R", "e", "n", "t">>), Str(<<"O", "p", "s">>), Str(<<"J", "a", "n">>), Num(300), Num(400)>>,
               <<Str(<<"M", "i", "s", "c">>), UndefCell, Str(<<"F", "e", "b">>), Num(0), Num(50)>> >>]

NotesCsv ==
  [name |-> <<"n", "o", "t", "e", "s", ".", "c", "s", "v">>,
   sheet |-> << <<Str(<<"T", "o", "p", "i", "c">>), Str(<<"N", "o", "t", "e">>)>>,
               <<Str(<<"a">>), Str(<<"b">>)>> >>]

ActualsCsv ==
  [name |-> <<"a", "c", "t", "u", "a", "l", "s", ".", "C", "S", "V">>,
   sheet |-> << <<Str(<<"C", "a", "t", "e", "g", "o", "r", "y">>), Str(<<"B", "u", "d", "g", "e", "t">>), Str(<<"A", "c", "t", "u", "a", "l">>)>>,
               <<Str(<<"R", "e", "n", "t">>), Str(<<"0">>), Str(<<"1", "5", "0", "0">>)>> >>]

\* the files a user drops on the landing page
LandingFiles == {BudgetCsv, NotesCsv}

PastedExample == <<"C", "a", "t", "e", "g", "o", "r", "y", ",", "B", "u", "d", "g", "e", "t", ",", "A", "c", "t", "u", "a", "l", "\n", "R", "e", "n", "t", ",", "1", "0", "0", "0", ",", "1", "2", "0", "0", "\n", "U", "t", "i", "l", "i", "t", "i", "e", "s", ",", "5", "0", "0", ",", "4", "0", "0">>

PastedTabbed == <<"N", "a", "m", "e", "\t", "P", "e", "r", "i", "o", "d", "\t", "P", "l", "a", "n", "\t", "R", "e", "a", "l", "\n", "\t", "J", "a", "n", "\t", "1", "0", "0", "\t", "1", "0", "5", "\n", "A", "d", "s", "\t", "F", "e", "b", "\t", "0", "\t", "7", "\n">>

ExtractedPlan == <<"I", "t", "e", "m", ",", "P", "l", "a", "n", ",", "S", "p", "e", "n", "t", "\n", "A", "d", "s", ",", "1", "0", "0", ",", "1", "2", "0", "\n", "R", "e", "n", "t", ",", "1", "0", "0", "0", "0", "0", "0", ",", "1", "0", "6", "0", "0", "0", "0", "\n", "n", "o", "t", "e">>


\* the values typed into the threshold inputs
PercentChoices == {10, 20}
DollarChoices == {50000, 60000}

(***************************************************************************)
(* State                                                                   *)
(***************************************************************************)

VARIABLES
  currentView,   \* App: 'landing' | 'analysis'
  data,          \* App: the loaded ParsedData, NullData for null
  settings,      \* App: the thresholds of ProjectSettings
  filters,       \* App: FilterState
  isLoading,     \* App: a sample-data timer is pending
  isParsing,     \* LandingPage
  landingError,  \* LandingPage: error
  fileParses,    \* LandingPage.handleFile calls awaiting parseFile
  origin,        \* the ingestion path that produced the loaded dataset and
                 \* the settings in force when it was built
  edits,         \* workflow updates applied to the loaded dataset
  projects,        \* App: the saved projects, as getProjects() returns them
  currentProject,  \* App: the project being worked on, NoProject for null
  showMultiUpload, \* LandingPage: the multi-file dialog is open
  files,           \* MultiFileUpload: the UploadedFile list
  mergeStrategy,   \* MultiFileUpload: 'stack' | 'budget-actual'
  isProcessing,    \* MultiFileUpload
  uploadError,     \* MultiFileUpload: error
  selects,         \* MultiFileUpload.handleFileSelect calls awaiting parseFile
  mergeCall,       \* the last call of mergeFiles: what it read and returned
  chatHistory,     \* App: ChatMessage[]
  wizard,          \* App.showImportWizard and the state of ImportWizard
  screenshot,      \* LandingPage.showScreenshotImport and the state of
                   \* ScreenshotImport
  call             \* the last call of a parsing function: input and result

projectVars == <<projects, currentProject>>

uploadVars == <<showMultiUpload, files, mergeStrategy, isProcessing, uploadError,
                selects, mergeCall>>

dialogVars == <<wizard, screenshot, call>>

vars == <<currentView, data, chatHistory, settings, filters, isLoading, isParsing,
          landingError, fileParses, origin, edits, projectVars, uploadVars,
          dialogVars>>

\* the number of handleFile calls that may await parseFile at once
MaxParses == 1

\* the number of workflow updates made to one loaded dataset
MaxEdits == 1

DEFAULT_SETTINGS ==
  [varianceThresholdPercent |-> 10, varianceThresholdDollar |-> 50000]

NoFilters ==
  [search |-> <<>>, costCenters |-> <<>>, glAccounts |-> <<>>, periods |-> <<>>,
   showOnlySignificant |-> FALSE, showOnlyStarred |-> FALSE,
   statuses |-> <<>>, owners |-> <<>>]

\* App's render computes these from the state: what KPIDashboard,
\* ExecutiveSummary, AIChat and the export get ...
dataWithThresholds ==
  IF data # NullData
  THEN applyThresholds(data.rows, settings.varianceThresholdPercent,
                       settings.varianceThresholdDollar)
  ELSE <<>>

\* ... and what SummaryCards, the charts, TopVariances and VarianceTable get
filteredData == filterData(dataWithThresholds, filters)

\* useState(null) of currentProject
NoProject == [id |-> 0, name |-> <<>>]

\* no call of mergeFiles yet
NoMergeCall ==
  [ran |-> FALSE, files |-> <<>>, mergeStrategy |-> "stack", result |-> NullData]

\* ImportWizard closed: its useState initial values, also what resetWizard sets
NoWizard ==
  [isOpen |-> FALSE, step |-> "paste", pastedText |-> <<>>, parsedRows |-> <<>>,
   detectedColumns |-> <<>>, mapping |-> EmptyMapping, error |-> ""]

\* ScreenshotImport closed: its useState initial values, also what resetState
\* sets; NoCsv stands for the null of extractedCSV
NoCsv == <<"<null>">>

\* imageData is TRUE when an image is held; reading and extracting count the
\* FileReader loads and the handleExtract calls that have not come back
NoScreenshot ==
  [isOpen |-> FALSE, step |-> "upload", imageData |-> FALSE,
   isProcessing |-> FALSE, extractedCSV |-> NoCsv, error |-> "",
   reading |-> 0, extracting |-> 0]

\* no parsing function called yet
NoCall == [fn |-> "none"]

Init ==
  /\ currentView = "landing"
  /\ data = NullData
  /\ settings = DEFAULT_SETTINGS
  /\ filters = NoFilters
  /\ isLoading = FALSE
  /\ isParsing = FALSE
  /\ landingError = ""
  /\ fileParses = {}
  /\ origin = [path |-> "none", settings |-> DEFAULT_SETTINGS]
  /\ edits = 0
  /\ projects = <<>>
  /\ currentProject = NoProject
  /\ showMultiUpload = FALSE
  /\ files = <<>>
  /\ mergeStrategy = "stack"
  /\ isProcessing = FALSE
  /\ uploadError = ""
  /\ selects = <<>>
  /\ mergeCall = NoMergeCall
  /\ chatHistory = <<>>
  /\ wizard = NoWizard
  /\ screenshot = NoScreenshot
  /\ call = NoCall

\* App.handleDataLoaded(parsedData), called by the ingestion path `path`.
\* The landing page (with its isParsing and error) is unmounted when the view
\* becomes 'analysis'; a later landing page starts from its initial state,
\* and a handleFile call still awaiting belongs to no mounted page.
handleDataLoaded(parsedData, path) ==
  /\ data' = parsedData
  /\ currentView' = "analysis"
  /\ filters' = NoFilters
  /\ isParsing' = FALSE
  /\ landingError' = ""
  /\ origin' = [path |-> path, settings |-> settings]
  /\ edits' = 0
  /\ currentProject' = NoProject
  /\ chatHistory' = <<>>

Unmounted(parses) == {[q EXCEPT !.mounted = FALSE] : q \in parses}

\* LandingPage.handleFile up to its await
HandleFileStart ==
  /\ currentView = "landing"
  /\ Cardinality(fileParses) < MaxParses
  /\ \E file \in LandingFiles :
       /\ [file |-> file, mounted |-> TRUE] \notin fileParses
       /\ fileParses' = fileParses \cup {[file |-> file, mounted |-> TRUE]}
  /\ isParsing' = TRUE
  /\ landingError' = ""
  /\ UNCHANGED <<currentView, data, chatHistory, settings, filters, isLoading,
                 origin, edits>>
  /\ UNCHANGED <<projectVars, dialogVars, uploadVars>>

\* what parseFile can deliver for each file: one outcome per outcome of the
\* generateId() calls (at most one per data line)
FileOutcomes ==
  UNION {{[file |-> f, result |-> parseFile(f, ids)] :
            ids \in IdDraws(Len(f.sheet) - 1)} : f \in LandingFiles}

\* LandingPage.handleFile after its await: parseFile resolved or rejected.
\* A call whose landing page was unmounted meanwhile still calls
\* onDataLoaded; its setError and setIsParsing reach no mounted component.
HandleFileDone ==
  \E p \in fileParses :
    \E o \in FileOutcomes :
      /\ o.file = p.file
      /\ IF o.result.ok
         THEN /\ handleDataLoaded(o.result.data, "file")
              /\ fileParses' = Unmounted(fileParses \ {p})
              /\ screenshot' = NoScreenshot
              /\ UNCHANGED <<settings, isLoading, projects, uploadVars, wizard, call>>
         ELSE /\ fileParses' = fileParses \ {p}
              /\ IF p.mounted
                 THEN landingError' = o.result.error /\ isParsing' = FALSE
                 ELSE UNCHANGED <<landingError, isParsing>>
              /\ UNCHANGED <<currentView, data, chatHistory, settings, filters, isLoading,
                             origin, edits, projectVars, dialogVars, uploadVars>>

\* App.handleLoadSampleData up to the timer (the link is disabled while
\* isLoading or isParsing)
HandleLoadSampleData ==
  /\ currentView = "landing"
  /\ ~isLoading /\ ~isParsing
  /\ isLoading' = TRUE
  /\ UNCHANGED <<currentView, data, chatHistory, settings, filters, isParsing, landingError,
                 fileParses, origin, edits>>
  /\ UNCHANGED <<projectVars, dialogVars, uploadVars>>

\* what generateSampleData() can return
SampleOutcomes ==
  {generateSampleData(draws, ids) :
     draws \in [1..Len(SamplePeriods) -> SampleDraws],
     ids \in IdDraws(Len(SamplePeriods))}

\* the 500 ms timer of handleLoadSampleData fires
SampleTimerFires ==
  /\ isLoading
  /\ \E sample \in SampleOutcomes : handleDataLoaded(sample, "sample")
  /\ isLoading' = FALSE
  /\ fileParses' = Unmounted(fileParses)
  /\ UNCHANGED settings
  /\ UNCHANGED <<projects, uploadVars, dialogVars>>

\* the readings of Date.now() over n rows: non-decreasing, counted from the
\* first reading, which is 1; a later one is 1 or 2
Clock(n) ==
  {t \in [1..n -> {1, 2}] : /\ n > 0 => t[1] = 1
                           /\ \A i \in 1..n : \A j \in i..n : t[i] <= t[j]}

\* the column mappings the user can reach from the auto-detected one: none,
\* or the actual role pointed at another header or cleared
WizardMappings(parsed) ==
  {parsed.mapping}
  \cup {[parsed.mapping EXCEPT !.actual = h] : h \in Range(parsed.headers) \cup {<<>>}}

PreviewsOf(parsed) ==
  IF parsed.ok
  THEN {[parsed |-> parsed, mapping |-> m] :
          m \in {m \in WizardMappings(parsed) : validateMapping(m)}}
  ELSE {}

\* what ImportWizard.handleImport can hand to onImport: for a text the user
\* pasted that parsed (handleTextChange) and a mapping that passed
\* handleProceedToPreview
WizardOutcomes ==
  UNION {{WizardImportData(w.parsed.rows, w.parsed.headers, w.mapping, nows) :
            nows \in Clock(Len(w.parsed.rows))} :
         w \in UNION {PreviewsOf(parseClipboardText(text)) :
                        text \in {PastedExample, PastedTabbed}}}

\* ImportWizard: paste, adjust the mapping, preview and handleImport.  The
\* wizard is opened from the analysis view.
WizardImport ==
  /\ currentView = "analysis"
  /\ \E imported \in WizardOutcomes : handleDataLoaded(imported, "paste")
  /\ fileParses' = Unmounted(fileParses)
  /\ UNCHANGED <<settings, isLoading>>
  /\ UNCHANGED <<projects, uploadVars, dialogVars>>

\* what ScreenshotImport.handleImport can do with the CSV text handleExtract
\* put in the preview: a dataset for onImport, or an error
ScreenshotOutcomes ==
  UNION {{ScreenshotImportData(csv, ids) :
            ids \in IdDraws(Len(split(trim(csv), "\n")) - 1)} : csv \in {ExtractedPlan}}

\* ScreenshotImport: handleExtract returned a CSV text, then handleImport.
\* The dialog is opened from the landing page.
ScreenshotImport ==
  /\ currentView = "landing"
  /\ \E r \in ScreenshotOutcomes : r.ok /\ handleDataLoaded(r.data, "screenshot")
  /\ fileParses' = Unmounted(fileParses)
  /\ UNCHANGED <<settings, isLoading>>
  /\ UNCHANGED <<projects, uploadVars, dialogVars>>

\* a file of the multi-file dialog after its parse
FileWithResult(f, r) ==
  [f EXCEPT !.status = IF r.ok THEN "parsed" ELSE "error",
            !.data = r.data,
            !.error = r.error]

\* an UploadedFile as handleFileSelect creates it
PendingFile(id, file) ==
  [id |-> id, file |-> file, status |-> "pending", data |-> NullData,
   error |-> ""]

UploadedFile(id, file, ids) ==
  FileWithResult(PendingFile(id, file), parseFile(file, ids))

MergeStrategies == {"stack", "budget-actual"}

\* the outcomes of the generateId() calls of the parses of a file list
SelectionIdDraws(sel) ==
  {own \in [1..Len(sel) -> UNION {IdDraws(Len(f.sheet) - 1) : f \in Range(sel)}] :
     \A k \in 1..Len(sel) : own[k] \in IdDraws(Len(sel[k].sheet) - 1)}

\* the dialog at the Import button: every file parsed or failed, at least one
\* parsed, a strategy chosen
MergeDialogs ==
  UNION {UNION {{[files |-> [k \in 1..Len(sel) |-> UploadedFile(generateId(k), sel[k], own[k])],
                  mergeStrategy |-> st] : own \in SelectionIdDraws(sel)} :
                 st \in MergeStrategies} :
         sel \in {<<DeptXlsx>>, <<NotesCsv, ActualsCsv>>, <<BudgetCsv, ActualsCsv>>}}

\* what MultiFileUpload.handleImport can hand to onImport
MergeOutcomes ==
  UNION {{mergeFiles(d.files, d.mergeStrategy, ids) :
            ids \in IdDraws(MergeIdCount(d.files, d.mergeStrategy))} : d \in MergeDialogs}

\* MultiFileUpload: files selected and parsed, a strategy chosen, then
\* handleImport.  The dialog is opened from the landing page.
MultiFileImport ==
  /\ currentView = "landing"
  /\ \E merged \in MergeOutcomes :
       merged # NullData /\ handleDataLoaded(merged, "merge")
  /\ fileParses' = Unmounted(fileParses)
  /\ UNCHANGED <<settings, isLoading>>
  /\ UNCHANGED <<projects, uploadVars, dialogVars>>

\* ThresholdSettings / FiltersPanel: onUpdateSettings({...: Number(value)})
UpdateSettings ==
  /\ currentView = "analysis"
  /\ \/ \E v \in PercentChoices :
          settings' = [settings EXCEPT !.varianceThresholdPercent = v]
     \/ \E v \in DollarChoices :
          settings' = [settings EXCEPT !.varianceThresholdDollar = v]
  /\ settings' # settings
  /\ UNCHANGED <<currentView, data, chatHistory, filters, isLoading, isParsing, landingError,
                 fileParses, origin, edits>>
  /\ UNCHANGED <<projectVars, dialogVars, uploadVars>>

\* the updates VarianceTable sends for a row: a status, the star toggle
RowUpdates(row) ==
  {[field |-> "status", status |-> "explained", isStarred |-> FALSE],
   [field |-> "isStarred", status |-> "", isStarred |-> ~row.isStarred]}

\* setData({ ...data, rows: data.rows.map(row => row.id === rowId
\*   ? { ...row, ...updates } : row) })
UpdatedData(d, rowId, updates) ==
  [d EXCEPT !.rows = [k \in 1..Len(d.rows) |->
                        IF d.rows[k].id # rowId THEN d.rows[k]
                        ELSE CASE updates.field = "status" ->
                                    [d.rows[k] EXCEPT !.status = updates.status]
                               [] updates.field = "isStarred" ->
                                    [d.rows[k] EXCEPT !.isStarred = updates.isStarred]
                               [] updates.field = "owner" ->
                                    [d.rows[k] EXCEPT !.owner = updates.owner]
                               [] updates.field = "rootCause" ->
                                    [d.rows[k] EXCEPT !.rootCause = updates.rootCause]
                               [] updates.field = "dueDate" ->
                                    [d.rows[k] EXCEPT !.dueDate = updates.dueDate]
                               [] updates.field = "explanation" ->
                                    [d.rows[k] EXCEPT !.explanation = updates.explanation]]]

\* App.handleUpdateRow(rowId, updates), called from a row of VarianceTable
HandleUpdateRow ==
  /\ currentView = "analysis"
  /\ data # NullData
  /\ edits < MaxEdits
  /\ \E row \in Range(filteredData) :
       \E updates \in RowUpdates(row) :
         data' = UpdatedData(data, row.id, updates)
  /\ edits' = edits + 1
  /\ UNCHANGED <<currentView, chatHistory, settings, filters, isLoading,
                 isParsing, landingError, fileParses, origin>>
  /\ UNCHANGED <<projectVars, dialogVars, uploadVars>>

\* Header: onBack
Back ==
  /\ currentView = "analysis"
  /\ currentView' = "landing"
  /\ UNCHANGED <<data, chatHistory, settings, filters, isLoading, isParsing, landingError,
                 fileParses, origin, edits>>
  /\ UNCHANGED <<projectVars, dialogVars, uploadVars>>

Next ==
  \/ HandleFileStart
  \/ HandleFileDone
  \/ HandleLoadSampleData
  \/ SampleTimerFires
  \/ WizardImport
  \/ ScreenshotImport
  \/ MultiFileImport
  \/ UpdateSettings
  \/ HandleUpdateRow
  \/ Back

Spec == Init /\ [][Next]_vars

(***************************************************************************)
(* App: projects, filters and what the render hands to the views           *)
(***************************************************************************)

\* the number of projects kept in localStorage
MaxProjects == 1

\* JSON.stringify of a record: a property whose value is undefined is left out
StringifyRow(row) ==
  [k \in {k \in DOMAIN row : k \in {"costCenter", "glAccount", "period"} => row[k] # Undefined}
     |-> row[k]]

\* the properties of a parsed record as the code reads them: a property that
\* is not there reads as undefined
ParseRow(obj, fields) ==
  [k \in fields |-> IF k \in DOMAIN obj THEN obj[k] ELSE Undefined]

\* saveProjects then getProjects on a dataset: JSON.parse(JSON.stringify(data))
StoredData(d) ==
  [d EXCEPT !.rows = [i \in 1..Len(d.rows) |->
                        ParseRow(StringifyRow(d.rows[i]), DOMAIN d.rows[i])]]

\* createProject(name, data, settings, chatHistory), then setProjects(getProjects())
createProject(name, now) ==
  /\ projects' = <<[id |-> now, name |-> name, data |-> StoredData(data),
                    settings |-> settings, chatHistory |-> chatHistory]>> \o projects
  /\ currentProject' = [id |-> now, name |-> name]

\* updateProject(currentProject.id, {name, data, settings, chatHistory}), then
\* setCurrentProject(updated) and setProjects(getProjects()) if it was found
updateProject(name) ==
  /\ projects' = [i \in 1..Len(projects) |->
                    IF projects[i].id = currentProject.id
                    THEN [projects[i] EXCEPT !.name = name, !.data = StoredData(data),
                                             !.settings = settings,
                                             !.chatHistory = chatHistory]
                    ELSE projects[i]]
  /\ currentProject' =
       IF \E i \in 1..Len(projects) : projects[i].id = currentProject.id
       THEN [currentProject EXCEPT !.name = name]
       ELSE currentProject

\* App.handleSaveProject(name), from SaveProjectModal, opened from the
\* FiltersPanel of the analysis view; Date.now() is later than at any
\* earlier save
HandleSaveProject ==
  /\ currentView = "analysis"
  /\ data # NullData
  /\ \E name \in {<<"Q", "1">>} :
       IF currentProject # NoProject
       THEN updateProject(name)
       ELSE /\ Len(projects) < MaxProjects
            /\ createProject(name, 1 + Max({0} \cup {projects[i].id : i \in 1..Len(projects)}))
  /\ UNCHANGED <<currentView, data, chatHistory, settings, filters, isLoading, isParsing,
                 landingError, fileParses, origin, edits, uploadVars, dialogVars>>

\* App.handleLoadProject(project), from the landing page's recent projects
\* or the projects sidebar
HandleLoadProject ==
  /\ \E i \in 1..Len(projects) :
       /\ data' = projects[i].data
       /\ settings' = projects[i].settings
       /\ currentProject' = [id |-> projects[i].id, name |-> projects[i].name]
       /\ chatHistory' = projects[i].chatHistory
       /\ origin' = [path |-> "project", settings |-> projects[i].settings]
  /\ currentView' = "analysis"
  /\ filters' = NoFilters
  /\ edits' = 0
  /\ isParsing' = FALSE
  /\ landingError' = ""
  /\ fileParses' = Unmounted(fileParses)
  /\ UNCHANGED <<isLoading, projects, uploadVars, dialogVars>>

\* App.handleDeleteProject(projectId), from the projects sidebar
HandleDeleteProject ==
  /\ \E i \in 1..Len(projects) :
       /\ projects' = SelectSeq(projects, LAMBDA q : q.id # projects[i].id)
       /\ currentProject' = IF currentProject.id = projects[i].id
                            THEN NoProject ELSE currentProject
  /\ UNCHANGED <<currentView, data, chatHistory, settings, filters, isLoading, isParsing,
                 landingError, fileParses, origin, edits, uploadVars, dialogVars>>

\* FiltersPanel: onUpdateFilters({...}), the two toggles
UpdateFilters ==
  /\ currentView = "analysis"
  /\ \/ filters' = [filters EXCEPT !.showOnlySignificant = ~filters.showOnlySignificant]
     \/ filters' = [filters EXCEPT !.showOnlyStarred = ~filters.showOnlyStarred]
  /\ UNCHANGED <<currentView, data, chatHistory, settings, isLoading, isParsing, landingError,
                 fileParses, origin, edits, projectVars, dialogVars, uploadVars>>

NextView ==
  \/ HandleFileStart
  \/ HandleFileDone
  \/ UpdateSettings
  \/ HandleUpdateRow
  \/ UpdateFilters
  \/ HandleSaveProject
  \/ HandleLoadProject
  \/ HandleDeleteProject
  \/ Back

SpecView == Init /\ [][NextView]_vars

(***************************************************************************)
(* MultiFileUpload: the dialog, with its file list, as a state machine     *)
(***************************************************************************)

\* handleFileSelect: const maxFiles = 3
maxFiles == 3

\* the number of handleFileSelect calls that may await parseFile at once
MaxSelects == 2

RentsXls ==
  [name |-> <<"r", "e", "n", "t", "s", ".", "x", "l", "s">>,
   sheet |-> << <<Str(<<"I", "t", "e", "m">>), Str(<<"B", "u", "d", "g", "e", "t">>), Str(<<"A", "c", "t", "u", "a", "l">>)>>,
               <<Str(<<"R", "e", "n", "t">>), Num(900), Num(1500)>>,
               <<Str(<<"R", "e", "n", "t">>), Num(900), Num(1700)>> >>]

\* the file lists a user picks or drops in the dialog
UploadSelections ==
  {<<ActualsCsv, NotesCsv>>,
   <<[name |-> <<"p", "h", "o", "t", "o", ".", "p", "n", "g">>, sheet |-> <<>>],
     ActualsCsv>>}

\* the entries handleFileSelect's loop takes from a selection when the list
\* holds currentCount files
AcceptedFiles(selection, currentCount) ==
  SelectSeq(SubSeq(selection, 1, Min({Len(selection), maxFiles - currentCount})),
            LAMBDA f : ExtOf(f.name) \in {<<"c", "s", "v">>, <<"x", "l", "s", "x">>,
                                          <<"x", "l", "s">>})

\* what parseFile can deliver for the files handleFileSelect takes
UploadOutcomes ==
  UNION {{[file |-> f, result |-> parseFile(f, ids)] :
            ids \in IdDraws(Len(f.sheet) - 1)} :
         f \in UNION {Range(AcceptedFiles(sel, 0)) : sel \in UploadSelections}}

\* the ids of the files in the list and of the files of the awaiting calls
UsedFileIds ==
  {files[i].id : i \in DOMAIN files}
  \cup UNION {{selects[c][j].id : j \in DOMAIN selects[c]} : c \in DOMAIN selects}

\* the outcomes of n generateId() calls for new files, up to renaming.  The
\* ids of the files of the dialog are taken as distinct from each other and
\* from the ids in use: every behaviour below is one of the program with
\* such draws.
RECURSIVE FileIdDraws(_, _)
FileIdDraws(used, n) ==
  IF n = 0 THEN <<>>
  ELSE <<generateId(Min({k \in 1..(Cardinality(used) + 1) : generateId(k) \notin used}))>>
       \o FileIdDraws(used \cup {generateId(Min({k \in 1..(Cardinality(used) + 1) :
                                                   generateId(k) \notin used}))}, n - 1)

\* setFiles(prev => prev.map(f => f.id === id ? { ...f, status: 'parsing' } : f))
MarkParsing(list, id) ==
  [i \in DOMAIN list |->
     IF list[i].id = id THEN [list[i] EXCEPT !.status = "parsing"] ELSE list[i]]

\* setFiles(prev => prev.map(f => f.id === id ? { ...f, <the parse result> } : f))
MarkDone(list, id, r) ==
  [i \in DOMAIN list |-> IF list[i].id = id THEN FileWithResult(list[i], r) ELSE list[i]]

\* LandingPage: the Upload Multiple button
OpenMultiUpload ==
  /\ currentView = "landing"
  /\ ~showMultiUpload
  /\ showMultiUpload' = TRUE
  /\ UNCHANGED <<currentView, data, chatHistory, settings, filters, isLoading, isParsing,
                 landingError, fileParses, origin, edits, projectVars, dialogVars, files,
                 mergeStrategy, isProcessing, uploadError, selects, mergeCall>>

\* handleFileSelect with its new files, up to the first await: the new files
\* are appended as pending and the first is marked parsing
FileSelectCall(newFiles) ==
  /\ Len(newFiles) > 0
  /\ files' = MarkParsing(files \o newFiles, newFiles[1].id)
  /\ selects' = Append(selects, newFiles)

\* MultiFileUpload.handleFileSelect(selectedFiles); the upload area is
\* rendered while files.length < 3
HandleFileSelect ==
  /\ showMultiUpload
  /\ Len(files) < maxFiles
  /\ Len(selects) < MaxSelects
  /\ \E selection \in UploadSelections :
       FileSelectCall([k \in 1..Len(AcceptedFiles(selection, Len(files))) |->
                         PendingFile(FileIdDraws(UsedFileIds, k)[k],
                                     AcceptedFiles(selection, Len(files))[k])])
  /\ UNCHANGED <<currentView, data, chatHistory, settings, filters, isLoading, isParsing,
                 landingError, fileParses, origin, edits, projectVars, dialogVars,
                 showMultiUpload, mergeStrategy, isProcessing, uploadError,
                 mergeCall>>

\* handleFileSelect after an await: the parse of the first file of the call
\* resolved or rejected; the loop marks the next file parsing and awaits
\* again, or ends
ParseSettled(c, r) ==
  /\ files' = IF Len(selects[c]) > 1
               THEN MarkParsing(MarkDone(files, selects[c][1].id, r), selects[c][2].id)
               ELSE MarkDone(files, selects[c][1].id, r)
  /\ selects' = IF Len(selects[c]) > 1
                 THEN [selects EXCEPT ![c] = Tail(selects[c])]
                 ELSE SubSeq(selects, 1, c - 1) \o SubSeq(selects, c + 1, Len(selects))

UploadParseDone ==
  /\ \E c \in DOMAIN selects :
       \E o \in UploadOutcomes :
         o.file = selects[c][1].file /\ ParseSettled(c, o.result)
  /\ UNCHANGED <<currentView, data, chatHistory, settings, filters, isLoading, isParsing,
                 landingError, fileParses, origin, edits, projectVars, dialogVars,
                 showMultiUpload, mergeStrategy, isProcessing, uploadError,
                 mergeCall>>

\* MultiFileUpload.removeFile(id), from the button of a listed file
RemoveFile ==
  /\ showMultiUpload
  /\ \E i \in DOMAIN files :
       files' = SelectSeq(files, LAMBDA f : f.id # files[i].id)
  /\ UNCHANGED <<currentView, data, chatHistory, settings, filters, isLoading, isParsing,
                 landingError, fileParses, origin, edits, projectVars, dialogVars,
                 showMultiUpload, mergeStrategy, isProcessing, uploadError,
                 selects, mergeCall>>

\* setMergeStrategy, from the buttons rendered while files.length >= 2
SetMergeStrategy ==
  /\ showMultiUpload
  /\ Len(files) >= 2
  /\ \E st \in MergeStrategies : st # mergeStrategy /\ mergeStrategy' = st
  /\ UNCHANGED <<currentView, data, chatHistory, settings, filters, isLoading, isParsing,
                 landingError, fileParses, origin, edits, projectVars, dialogVars,
                 showMultiUpload, files, isProcessing, uploadError, selects,
                 mergeCall>>

\* resetState() and onClose(); also the state of the dialog of a landing
\* page mounted later
DialogClosed ==
  /\ showMultiUpload' = FALSE
  /\ files' = <<>>
  /\ mergeStrategy' = "stack"
  /\ isProcessing' = FALSE
  /\ uploadError' = ""

\* MultiFileUpload.handleClose, from the X and Cancel buttons; the awaiting
\* handleFileSelect calls go on
HandleClose ==
  /\ showMultiUpload
  /\ DialogClosed
  /\ UNCHANGED <<currentView, data, chatHistory, settings, filters, isLoading, isParsing,
                 landingError, fileParses, origin, edits, projectVars, dialogVars, selects,
                 mergeCall>>

\* MultiFileUpload.handleImport once mergeFiles() returned mergedData.  With
\* onImport the view becomes 'analysis' and the landing page, the dialog
\* with it, is unmounted: what awaiting handleFileSelect calls set later
\* reaches no component.
ImportMerged(mergedData) ==
  /\ mergeCall' = [ran |-> TRUE, files |-> files, mergeStrategy |-> mergeStrategy,
                   result |-> mergedData]
  /\ IF mergedData = NullData
     THEN /\ uploadError' = "No valid data to import"
          /\ isProcessing' = FALSE
          /\ UNCHANGED <<currentView, data, chatHistory, settings, filters, isLoading,
                         isParsing, landingError, fileParses, origin, edits,
                         projectVars, dialogVars, showMultiUpload, files, mergeStrategy,
                         selects>>
     ELSE /\ handleDataLoaded(mergedData, "merge")
          /\ DialogClosed
          /\ selects' = <<>>
          /\ fileParses' = Unmounted(fileParses)
          /\ UNCHANGED <<settings, isLoading, projects, dialogVars>>

\* MultiFileUpload.handleImport
handleImport ==
  \E ids \in IdDraws(MergeIdCount(files, mergeStrategy)) :
    ImportMerged(mergeFiles(files, mergeStrategy, ids))

\* parsedCount > 0 && !files.some(f => f.status === 'parsing')
canImport ==
  /\ \E i \in DOMAIN files : files[i].status = "parsed"
  /\ \A i \in DOMAIN files : files[i].status # "parsing"

\* the Import button: disabled={!canImport || isProcessing}
UploadImport ==
  /\ showMultiUpload
  /\ canImport /\ ~isProcessing
  /\ handleImport

NextUpload ==
  \/ OpenMultiUpload
  \/ HandleFileSelect
  \/ UploadParseDone
  \/ RemoveFile
  \/ SetMergeStrategy
  \/ HandleClose
  \/ UploadImport

SpecUpload == Init /\ [][NextUpload]_vars

\* Two handleFileSelect calls of the same render (two selection events
\* handled before the component re-renders): both read currentCount =
\* files.length from the closure of that render, and both append through
\* setFiles(prev => [...prev, ...newFiles]).
HandleFileSelectPair ==
  /\ showMultiUpload
  /\ Len(files) < maxFiles
  /\ Len(selects) + 2 <= MaxSelects
  /\ \E first \in UploadSelections : \E second \in UploadSelections :
       LET firstFiles == AcceptedFiles(first, Len(files))
           secondFiles == AcceptedFiles(second, Len(files))
           ids == FileIdDraws(UsedFileIds, Len(firstFiles) + Len(secondFiles))
           firstNew == [k \in 1..Len(firstFiles) |-> PendingFile(ids[k], firstFiles[k])]
           secondNew == [k \in 1..Len(secondFiles) |->
                           PendingFile(ids[Len(firstFiles) + k], secondFiles[k])]
       IN  /\ Len(firstNew) > 0 /\ Len(secondNew) > 0
           /\ files' = MarkParsing(MarkParsing(files \o firstNew, firstNew[1].id)
                                     \o secondNew, secondNew[1].id)
           /\ selects' = selects \o <<firstNew, secondNew>>
  /\ UNCHANGED <<currentView, data, chatHistory, settings, filters, isLoading, isParsing,
                 landingError, fileParses, origin, edits, projectVars, dialogVars,
                 showMultiUpload, mergeStrategy, isProcessing, uploadError,
                 mergeCall>>

NextSelect ==
  \/ NextUpload
  \/ HandleFileSelectPair

SpecSelect == Init /\ [][NextSelect]_vars

(***************************************************************************)
(* ImportWizard: the paste wizard as a state machine                       *)
(***************************************************************************)

\* a text of one line
PastedHeaderOnly == <<"C", "a", "t", "e", "g", "o", "r", "y", ",", "B", "u", "d", "g", "e", "t">>

\* the texts a user types into the text area or has on the clipboard
WizardTexts == {PastedExample, PastedTabbed, PastedHeaderOnly, <<" ">>}

\* App: the Paste Data button of the analysis view
OpenImportWizard ==
  /\ currentView = "analysis"
  /\ data # NullData
  /\ ~wizard.isOpen
  /\ call = NoCall   \* the wizard is followed up to its first import
  /\ wizard' = [wizard EXCEPT !.isOpen = TRUE]
  /\ UNCHANGED <<currentView, data, chatHistory, settings, filters, isLoading,
                 isParsing, landingError, fileParses, origin, edits, projectVars,
                 uploadVars, screenshot, call>>

\* the wizard after parseClipboardText(text) returned r: the setters it
\* calls on success, setError alone on failure
WizardParsed(w, r) ==
  IF r.ok
  THEN [w EXCEPT !.detectedColumns = r.headers, !.parsedRows = r.rows,
                 !.mapping = r.mapping, !.error = "", !.step = "map"]
  ELSE [w EXCEPT !.error = r.error]

\* ImportWizard.handlePaste (the clipboard was read) and handleTextChange:
\* setPastedText(text), then parseClipboardText(text); handleTextChange
\* parses only if text.trim() is not empty
HandleTextChange ==
  /\ wizard.isOpen /\ wizard.step = "paste"
  /\ \E text \in WizardTexts : \E pasted \in BOOLEAN :
       wizard' = IF pasted \/ trim(text) # <<>>
                 THEN WizardParsed([wizard EXCEPT !.pastedText = text],
                                   parseClipboardText(text))
                 ELSE [wizard EXCEPT !.pastedText = text]
  /\ UNCHANGED <<currentView, data, chatHistory, settings, filters, isLoading,
                 isParsing, landingError, fileParses, origin, edits, projectVars,
                 uploadVars, screenshot, call>>

\* the button of a step: on 'paste', pastedText && parseClipboardText(
\* pastedText) (disabled without a text); on 'map', handleProceedToPreview
WizardContinue ==
  /\ wizard.isOpen
  /\ \/ /\ wizard.step = "paste" /\ wizard.pastedText # <<>>
        /\ wizard' = WizardParsed(wizard, parseClipboardText(wizard.pastedText))
     \/ /\ wizard.step = "map"
        /\ wizard' = IF validateMapping(wizard.mapping)
                     THEN [wizard EXCEPT !.error = "", !.step = "preview"]
                     ELSE [wizard EXCEPT !.error = "Please map Category, Budget, and Actual columns"]
  /\ UNCHANGED <<currentView, data, chatHistory, settings, filters, isLoading,
                 isParsing, landingError, fileParses, origin, edits, projectVars,
                 uploadVars, screenshot, call>>

\* the selects of the 'map' step: setMapping({ ...mapping, [field]: value })
\* for a required field, value || undefined for an optional one; the options
\* are the detected columns and the empty value
SetMapping ==
  /\ wizard.isOpen /\ wizard.step = "map"
  /\ \E value \in Range(wizard.detectedColumns) \cup {<<>>} :
       \/ \E field \in {"category", "actual"} :
            wizard' = [wizard EXCEPT !.mapping[field] = value]
       \/ wizard' = [wizard EXCEPT !.mapping.period =
                                     IF value = <<>> THEN Undefined ELSE value]
  /\ wizard' # wizard
  /\ UNCHANGED <<currentView, data, chatHistory, settings, filters, isLoading,
                 isParsing, landingError, fileParses, origin, edits, projectVars,
                 uploadVars, screenshot, call>>

\* the Back button: 'preview' to 'map', 'map' to 'paste'; on 'paste' it is
\* Cancel, which like the X button is handleClose: resetWizard() and onClose()
WizardBack ==
  /\ wizard.isOpen
  /\ wizard' = IF wizard.step = "preview" THEN [wizard EXCEPT !.step = "map"]
               ELSE IF wizard.step = "map" THEN [wizard EXCEPT !.step = "paste"]
               ELSE NoWizard
  /\ UNCHANGED <<currentView, data, chatHistory, settings, filters, isLoading,
                 isParsing, landingError, fileParses, origin, edits, projectVars,
                 uploadVars, screenshot, call>>

\* ImportWizard.handleImport, from the button of the 'preview' step:
\* onImport(data) and handleClose()
WizardHandleImport ==
  /\ wizard.isOpen /\ wizard.step = "preview"
  /\ \E nows \in Clock(Len(wizard.parsedRows)) :
       handleDataLoaded(WizardImportData(wizard.parsedRows, wizard.detectedColumns,
                                         wizard.mapping, nows), "paste")
  /\ call' = [fn |-> "handleImport", mapping |-> wizard.mapping,
              detectedColumns |-> wizard.detectedColumns,
              parsedRows |-> wizard.parsedRows]
  /\ wizard' = NoWizard
  /\ fileParses' = Unmounted(fileParses)
  /\ UNCHANGED <<settings, isLoading, projects, uploadVars, screenshot>>

NextWizard ==
  \/ HandleFileStart
  \/ HandleFileDone
  \/ ScreenshotImport
  \/ OpenImportWizard
  \/ HandleTextChange
  \/ WizardContinue
  \/ SetMapping
  \/ WizardBack
  \/ WizardHandleImport

SpecWizard == Init /\ [][NextWizard]_vars

(***************************************************************************)
(* ScreenshotImport as a state machine, and the ingestion paths together   *)
(***************************************************************************)

\* a text the extraction returned that has no budget and no actual column
ExtractedNotes == <<"N", "o", "t", "e", "s", ",", "A", "m", "o", "u", "n", "t", "\n", "R", "e", "n", "t", ",", "1", "0", "0">>

\* the dialogs are modal: while one is open the page under it gets no event
NoDialogOpen == ~wizard.isOpen /\ ~screenshot.isOpen /\ ~showMultiUpload

\* LandingPage: the Import from Screenshot button
OpenScreenshotImport ==
  /\ currentView = "landing"
  /\ ~screenshot.isOpen
  /\ screenshot' = [screenshot EXCEPT !.isOpen = TRUE]
  /\ UNCHANGED <<currentView, data, chatHistory, settings, filters, isLoading,
                 isParsing, landingError, fileParses, origin, edits, projectVars,
                 uploadVars, wizard, call>>

\* the FileReader loads and the extractions one dialog may await at once
MaxReads == 1
MaxExtractions == 2

\* the sentinel the extraction prompt asks for
ErrorPrefix == <<"E", "R", "R", "O", "R", ":">>

\* texts extractDataFromImage can return besides the tables: the sentinel
\* reply, and a reply that carries the sentinel after a blank
ErrorReply == <<"E", "R", "R", "O", "R", ":", " ", "n", "o", " ", "t", "a", "b", "l", "e">>
IndentedErrorReply == <<" ", "E", "R", "R", "O", "R", ":", " ", "n", "o", " ", "t", "a", "b", "l", "e">>

ExtractReplies == {ExtractedPlan, ExtractedNotes, ErrorReply, IndentedErrorReply}

\* ScreenshotImport.resetState
resetState(shot) ==
  [shot EXCEPT !.imageData = FALSE, !.extractedCSV = NoCsv, !.error = "",
               !.step = "upload", !.isProcessing = FALSE]

\* ScreenshotImport.handleFileSelect(file): another file than an image sets
\* the error, an image is handed to a FileReader
ScreenshotSelect ==
  /\ screenshot.isOpen /\ screenshot.step = "upload"
  /\ \E isImage \in BOOLEAN :
       IF isImage
       THEN /\ screenshot.reading < MaxReads
            /\ screenshot' = [screenshot EXCEPT !.reading = @ + 1]
       ELSE screenshot' = [screenshot EXCEPT !.error = "Please select an image file (PNG, JPG, etc.)"]
  /\ UNCHANGED <<currentView, data, chatHistory, settings, filters, isLoading,
                 isParsing, landingError, fileParses, origin, edits, projectVars,
                 uploadVars, wizard, call>>

\* reader.onload of handleFileSelect, on the mounted component
ScreenshotReaderLoad ==
  /\ currentView = "landing"
  /\ screenshot.reading > 0
  /\ screenshot' = [screenshot EXCEPT !.reading = @ - 1, !.imageData = TRUE,
                                      !.step = "preview", !.error = ""]
  /\ UNCHANGED <<currentView, data, chatHistory, settings, filters, isLoading,
                 isParsing, landingError, fileParses, origin, edits, projectVars,
                 uploadVars, wizard, call>>

\* ScreenshotImport.handleExtract up to its await (the button is rendered in
\* the preview step and disabled while isProcessing; an API key is stored)
ScreenshotExtract ==
  /\ screenshot.isOpen /\ screenshot.step = "preview"
  /\ ~screenshot.isProcessing
  /\ screenshot.imageData
  /\ screenshot.extracting < MaxExtractions
  /\ screenshot' = [screenshot EXCEPT !.isProcessing = TRUE, !.error = "",
                                      !.extracting = @ + 1]
  /\ UNCHANGED <<currentView, data, chatHistory, settings, filters, isLoading,
                 isParsing, landingError, fileParses, origin, edits, projectVars,
                 uploadVars, wizard, call>>

\* handleExtract after its await with every reply stored as it came
AfterExtractUnchecked(shot, reply) ==
  [shot EXCEPT !.extractedCSV = reply, !.step = "result", !.isProcessing = FALSE]

\* handleExtract after its await, extractDataFromImage having returned reply
AfterExtract(shot, reply) ==
  IF startsWith(reply, ErrorPrefix)
  THEN [shot EXCEPT !.error = Text(trim(replaceFirst(reply, ErrorPrefix, <<>>))),
                    !.isProcessing = FALSE]
  ELSE [shot EXCEPT !.extractedCSV = reply, !.step = "result",
                    !.isProcessing = FALSE]

\* a handleExtract call comes back on the mounted component with reply
ScreenshotExtractReturned(reply) ==
  /\ currentView = "landing"
  /\ screenshot.extracting > 0
  /\ screenshot' = AfterExtract([screenshot EXCEPT !.extracting = @ - 1], reply)
  /\ UNCHANGED <<currentView, data, chatHistory, settings, filters, isLoading,
                 isParsing, landingError, fileParses, origin, edits, projectVars,
                 uploadVars, wizard, call>>

ScreenshotExtractDone == \E reply \in ExtractReplies : ScreenshotExtractReturned(reply)

\* extractDataFromImage threw (no key, or the response was not ok)
ScreenshotExtractThrew ==
  /\ currentView = "landing"
  /\ screenshot.extracting > 0
  /\ screenshot' = [screenshot EXCEPT !.extracting = @ - 1, !.error = "API error: 500",
                                      !.isProcessing = FALSE]
  /\ UNCHANGED <<currentView, data, chatHistory, settings, filters, isLoading,
                 isParsing, landingError, fileParses, origin, edits, projectVars,
                 uploadVars, wizard, call>>

\* the footer button outside the upload step: Start Over, resetState()
ScreenshotStartOver ==
  /\ screenshot.isOpen /\ screenshot.step # "upload"
  /\ screenshot' = resetState(screenshot)
  /\ UNCHANGED <<currentView, data, chatHistory, settings, filters, isLoading,
                 isParsing, landingError, fileParses, origin, edits, projectVars,
                 uploadVars, wizard, call>>

\* the catch of handleImport, with onImport handed an empty dataset
ScreenshotRejectedClearing(error) ==
  /\ screenshot' = [screenshot EXCEPT !.error = error]
  /\ data' = NullData
  /\ UNCHANGED <<currentView, chatHistory, settings, filters, isLoading,
                 isParsing, landingError, fileParses, origin, edits, projectVars,
                 uploadVars, wizard, call>>

\* the catch of ScreenshotImport.handleImport: setError(message)
ScreenshotRejected(error) ==
  /\ screenshot' = [screenshot EXCEPT !.error = error]
  /\ UNCHANGED <<currentView, data, chatHistory, settings, filters, isLoading,
                 isParsing, landingError, fileParses, origin, edits, projectVars,
                 uploadVars, wizard, call>>

\* ScreenshotImport.handleImport: parseCSVToData(extractedCSV), then
\* onImport(data) and handleClose(), or the catch
ScreenshotHandleImport ==
  /\ screenshot.isOpen /\ screenshot.step = "result"
  /\ screenshot.extractedCSV # NoCsv
  /\ \E ids \in IdDraws(Len(split(trim(screenshot.extractedCSV), "\n")) - 1) :
       \E r \in {ScreenshotImportData(screenshot.extractedCSV, ids)} :
         IF r.ok
         THEN /\ handleDataLoaded(r.data, "screenshot")
              /\ screenshot' = NoScreenshot
              /\ fileParses' = Unmounted(fileParses)
              /\ UNCHANGED <<settings, isLoading, projects, uploadVars, wizard, call>>
         ELSE ScreenshotRejected(r.error)

\* ScreenshotImport.handleClose: resetState() and onClose()
ScreenshotClose ==
  /\ screenshot.isOpen
  /\ screenshot' = [resetState(screenshot) EXCEPT !.isOpen = FALSE]
  /\ UNCHANGED <<currentView, data, chatHistory, settings, filters, isLoading,
                 isParsing, landingError, fileParses, origin, edits, projectVars,
                 uploadVars, wizard, call>>

\* no FileReader load and no extraction of the dialog is awaited
NothingAwaited == screenshot.reading = 0 /\ screenshot.extracting = 0

NextIngest ==
  \/ NoDialogOpen /\ HandleFileStart
  \/ HandleFileDone
  \/ NoDialogOpen /\ UpdateFilters
  \/ NoDialogOpen /\ HandleSaveProject
  \/ NoDialogOpen /\ Back
  \/ OpenImportWizard
  \/ HandleTextChange
  \/ WizardContinue
  \/ WizardBack
  \/ WizardHandleImport
  \/ NoDialogOpen /\ OpenScreenshotImport
  \/ ScreenshotSelect
  \/ ScreenshotReaderLoad
  \/ ScreenshotExtract
  \/ ScreenshotExtractDone
  \/ ScreenshotExtractThrew
  \/ NothingAwaited /\ ScreenshotStartOver
  \/ ScreenshotHandleImport
  \/ NothingAwaited /\ ScreenshotClose   \* SpecShot has the dialog left earlier
  \/ NoDialogOpen /\ OpenMultiUpload
  \/ files = <<>> /\ HandleFileSelect   \* followed up to the parses of one selection
  \/ UploadParseDone

SpecIngest == Init /\ [][NextIngest]_vars

(***************************************************************************)
(* The workflow controls of VarianceTable on a loaded file                 *)
(***************************************************************************)

\* the workflow updates made to one loaded dataset in SpecEdit
MaxTableEdits == 2

\* an updates object of one workflow field; the other fields stand for
\* properties the object does not have
OneUpdate(field, status, isStarred, owner, rootCause, dueDate, explanation) ==
  [field |-> field, status |-> status, isStarred |-> isStarred, owner |-> owner,
   rootCause |-> rootCause, dueDate |-> dueDate, explanation |-> explanation]

\* what the controls of a row send: the status select and Mark as Explained,
\* the owner input and its clear button, the root cause select, the date
\* input, the star button, the explanation text
TableUpdates(row) ==
  {OneUpdate("status", st, FALSE, <<>>, "", <<>>, <<>>) : st \in {"investigating", "explained"}}
  \cup {OneUpdate("owner", "", FALSE, ow, "", <<>>, <<>>) : ow \in {<<"A", "n", "a">>, <<>>}}
  \cup {OneUpdate("rootCause", "", FALSE, <<>>, "timing", <<>>, <<>>),
        OneUpdate("dueDate", "", FALSE, <<>>, "", <<"2", "0", "2", "4", "-", "0", "1", "-", "1", "5">>, <<>>),
        OneUpdate("isStarred", "", ~row.isStarred, <<>>, "", <<>>, <<>>),
        OneUpdate("explanation", "", FALSE, <<>>, "", <<>>, <<"l", "a", "t", "e", " ", "P", "O">>)}

\* App.handleUpdateRow(rowId, updates)
UpdateRowWith(rowId, updates) ==
  /\ data # NullData
  /\ data' = UpdatedData(data, rowId, updates)
  /\ edits' = edits + 1
  /\ UNCHANGED <<currentView, chatHistory, settings, filters, isLoading,
                 isParsing, landingError, fileParses, origin>>
  /\ UNCHANGED <<projectVars, dialogVars, uploadVars>>

\* a control of a rendered row is used
TableUpdate ==
  /\ currentView = "analysis"
  /\ edits < MaxTableEdits
  /\ \E row \in Range(filteredData) :
       \E updates \in TableUpdates(row) : UpdateRowWith(row.id, updates)

NextEdit ==
  \/ HandleFileStart
  \/ HandleFileDone
  \/ TableUpdate
  \/ UpdateFilters

SpecEdit == Init /\ [][NextEdit]_vars

(***************************************************************************)
(* groupData, filterData and the overdue rule on record lists; a behaviour *)
(* is one call                                                             *)
(***************************************************************************)

\* the length of the record lists
MaxTableRows == 3

\* a record as the builders make it, with the fields the table functions read
TableRow(category, costCenter, glAccount, period, budget, actual) ==
  [id |-> category, category |-> category, costCenter |-> costCenter,
   glAccount |-> glAccount, period |-> period, budget |-> budget, actual |-> actual,
   dollarVariance |-> actual - budget,
   percentVariance |-> PercentVariance(actual - budget, budget),
   isSignificant |-> RatAbsGreater(PercentVariance(actual - budget, budget), 10)
                     \/ Abs(actual - budget) > 50000,
   isStarred |-> FALSE, comments |-> <<>>, status |-> "new", owner |-> <<>>,
   rootCause |-> "", dueDate |-> <<>>, explanation |-> <<>>]

\* dimension tags: absent, empty, and two cost centers over two accounts
GroupTags ==
  {[costCenter |-> Undefined, glAccount |-> Undefined],
   [costCenter |-> <<>>, glAccount |-> <<"6">>],
   [costCenter |-> <<"N">>, glAccount |-> <<"6">>],
   [costCenter |-> <<"S">>, glAccount |-> <<"7">>]}

\* budget and actual: over by 10, under by 10, under by 50, and no budget
GroupAmounts ==
  {[budget |-> 100, actual |-> 110], [budget |-> 100, actual |-> 90],
   [budget |-> 200, actual |-> 150], [budget |-> 0, actual |-> 5]}

GroupRows ==
  {TableRow(<<"R">>, t.costCenter, t.glAccount, Undefined, a.budget, a.actual) :
     t \in GroupTags, a \in GroupAmounts}

RECURSIVE ListsOf(_, _)
ListsOf(S, n) ==
  IF n = 0 THEN {<<>>}
  ELSE ListsOf(S, n - 1) \cup {Append(l, x) : l \in ListsOf(S, n - 1), x \in S}

GroupInputs == ListsOf(GroupRows, MaxTableRows)

\* VarianceTable: groupData(data, groupBy)
GroupCall ==
  /\ call = NoCall
  /\ \E rows \in GroupInputs : \E groupBy \in {"costCenter", "glAccount"} :
       call' = [fn |-> "groupData", rows |-> rows, groupBy |-> groupBy,
                result |-> groupData(rows, groupBy)]
  /\ UNCHANGED <<currentView, data, chatHistory, settings, filters, isLoading,
                 isParsing, landingError, fileParses, origin, edits, projectVars,
                 uploadVars, wizard, screenshot>>

\* records for the filter: tagged ones, one without tags, one with an empty
\* cost center; two of them significant, two starred
FilterRows ==
  {[TableRow(<<"R", "e", "n", "t">>, <<"N">>, <<"6">>, <<"J", "a", "n">>, 100, 150)
      EXCEPT !.owner = <<"A", "n", "a">>, !.isStarred = TRUE],
   [TableRow(<<"A", "d", "s">>, <<"S">>, <<"7">>, <<"F", "e", "b">>, 100, 105)
      EXCEPT !.status = "closed"],
   TableRow(<<"R", "o", "w", " ", "3">>, Undefined, Undefined, Undefined, 100, 150),
   [TableRow(<<"F", "e", "e", "s">>, <<"N">>, <<"7">>, <<"J", "a", "n">>, 100, 100)
      EXCEPT !.status = "investigating", !.owner = <<"B", "o">>, !.isStarred = TRUE],
   [TableRow(<<"T", "a", "x">>, <<>>, <<"6">>, <<"F", "e", "b">>, 100, 101)
      EXCEPT !.owner = <<"A", "n", "a">>]}

\* FilterState values: each facet empty or one value, each flag, a search
FilterStates ==
  {[search |-> se, costCenters |-> cc, glAccounts |-> gl, periods |-> pe,
    statuses |-> st, owners |-> ow, showOnlySignificant |-> sig,
    showOnlyStarred |-> star] :
     se \in {<<>>, <<"A", "N">>}, cc \in {<<>>, <<<<"N">>>>},
     gl \in {<<>>, <<<<"6">>>>}, pe \in {<<>>, <<<<"J", "a", "n">>>>},
     st \in {<<>>, <<"new", "investigating">>}, ow \in {<<>>, <<<<"A", "n", "a">>>>},
     sig \in BOOLEAN, star \in BOOLEAN}

FilterInputs == ListsOf(FilterRows, MaxTableRows)

\* App: filterData(dataWithThresholds, filters)
FilterCall ==
  /\ call = NoCall
  /\ \E rows \in FilterInputs : \E filterState \in FilterStates :
       call' = [fn |-> "filterData", rows |-> rows, filterState |-> filterState,
                result |-> filterData(rows, filterState)]
  /\ UNCHANGED <<currentView, data, chatHistory, settings, filters, isLoading,
                 isParsing, landingError, fileParses, origin, edits, projectVars,
                 uploadVars, wizard, screenshot>>

\* new Date(s) for a date-only text YYYY-MM-DD: midnight UTC of that day,
\* as the day number (order-preserving) and the milliseconds into the day;
\* any other text here gives an Invalid Date
IsDigitChar(c) == c \in {"0", "1", "2", "3", "4", "5", "6", "7", "8", "9"}

DaysBefore(month) == <<0, 31, 59, 90, 120, 151, 181, 212, 243, 273, 304, 334>>[month]

DateOf(s) ==
  IF /\ Len(s) = 10 /\ s[5] = "-" /\ s[8] = "-"
     /\ \A k \in {1, 2, 3, 4, 6, 7, 9, 10} : IsDigitChar(s[k])
     /\ DigitVal(s[6]) * 10 + DigitVal(s[7]) \in 1..12
     /\ DigitVal(s[9]) * 10 + DigitVal(s[10]) \in 1..28
  THEN [invalid |-> FALSE,
        day |-> (DigitVal(s[1]) * 1000 + DigitVal(s[2]) * 100 + DigitVal(s[3]) * 10
                 + DigitVal(s[4])) * 365
                + DaysBefore(DigitVal(s[6]) * 10 + DigitVal(s[7]))
                + DigitVal(s[9]) * 10 + DigitVal(s[10]),
        ms |-> 0]
  ELSE [invalid |-> TRUE, day |-> 0, ms |-> 0]

\* a < b for two Date values (false when one is invalid)
DateBefore(a, b) ==
  /\ ~a.invalid /\ ~b.invalid
  /\ a.day < b.day \/ (a.day = b.day /\ a.ms < b.ms)

\* the overdue test of calculateKPIs with an inclusive comparison
KpiOverdueInclusive(r, today) ==
  IF ~IsTruthyStr(r.dueDate) \/ r.status = "closed" \/ r.status = "explained"
  THEN FALSE
  ELSE ~DateBefore(today, DateOf(r.dueDate))

\* KPIDashboard.calculateKPIs: the filter of overdueCount
KpiOverdue(r, today) ==
  IF ~IsTruthyStr(r.dueDate) \/ r.status = "closed" \/ r.status = "explained"
  THEN FALSE
  ELSE DateBefore(DateOf(r.dueDate), today)

overdueCount(rows, today) ==
  Len(SelectSeq(rows, LAMBDA r : KpiOverdue(r, today)))

\* VarianceTable.renderRow: isOverdue
isOverdue(row, now) ==
  /\ IsTruthyStr(row.dueDate)
  /\ DateBefore(DateOf(row.dueDate), now)
  /\ row.status # "closed"
  /\ row.status # "explained"

\* the length of the record lists handed to the KPI dashboard
MaxKpiRows == 2

\* due dates: none, the day before, the day itself, the day after, and a
\* text that is no date
DueDates ==
  {<<>>, <<"2", "0", "2", "4", "-", "0", "1", "-", "1", "4">>, <<"2", "0", "2", "4", "-", "0", "1", "-", "1", "5">>, <<"2", "0", "2", "4", "-", "0", "1", "-", "1", "6">>,
   <<"s", "o", "o", "n">>}

KpiRows ==
  {[TableRow(<<"R">>, Undefined, Undefined, Undefined, 100, 150)
      EXCEPT !.dueDate = due, !.status = st] :
     due \in DueDates, st \in {"investigating", "explained", "closed"}}

\* the instants of a render: midnight UTC of 2024-01-15 and a millisecond
\* later
Instants ==
  {[DateOf(<<"2", "0", "2", "4", "-", "0", "1", "-", "1", "5">>) EXCEPT !.ms = ms] : ms \in {0, 1}}

\* one render of the analysis view: calculateKPIs and the rows of the table,
\* each with its own new Date()
KpiCall ==
  /\ call = NoCall
  /\ \E rows \in ListsOf(KpiRows, MaxKpiRows) : \E today \in Instants : \E now \in Instants :
       call' = [fn |-> "calculateKPIs", rows |-> rows, today |-> today, now |-> now,
                overdueCount |-> overdueCount(rows, today),
                isOverdue |-> [k \in 1..Len(rows) |-> isOverdue(rows[k], now)]]
  /\ UNCHANGED <<currentView, data, chatHistory, settings, filters, isLoading,
                 isParsing, landingError, fileParses, origin, edits, projectVars,
                 uploadVars, wizard, screenshot>>

\* records of a budget file and of an actual file: a category with and
\* without a bar, the code 100 as cost center or as GL account
JoinRows ==
  {TableRow(cat, cc, gl, Undefined, 500, 500 + Len(cat) + Len(cc) + 2 * Len(gl)) :
     cat \in {<<"R", "e", "n", "t">>, <<"R", "e", "n", "t", "|", "1", "0", "0">>},
     cc \in {Undefined, <<"1", "0", "0">>},
     gl \in {Undefined, <<"1", "0", "0">>}}

\* the rows an actual file holds
MaxActualRows == 2

\* the budget + actual branch of mergeFiles for one row of the budget file:
\* its key, the rows of the actual file under that key, the actual it gets
PairingCall ==
  /\ call = NoCall
  /\ \E row \in JoinRows : \E actualRows \in ListsOf(JoinRows, MaxActualRows) :
       call' = [fn |-> "pairing", row |-> row, actualRows |-> actualRows,
                key |-> JoinKey(row),
                holders |-> Holders(JoinKey(row), actualRows),
                actual |-> ActualFor(row, actualRows)]
  /\ UNCHANGED <<currentView, data, chatHistory, settings, filters, isLoading,
                 isParsing, landingError, fileParses, origin, edits, projectVars,
                 uploadVars, wizard, screenshot>>

NextTable ==
  \/ GroupCall
  \/ FilterCall
  \/ KpiCall
  \/ PairingCall

SpecTable == Init /\ [][NextTable]_vars

\* the screenshot dialog alone, with its awaited loads and extractions
NextShot ==
  \/ OpenScreenshotImport
  \/ ScreenshotSelect
  \/ ScreenshotReaderLoad
  \/ ScreenshotExtract
  \/ ScreenshotExtractDone
  \/ ScreenshotExtractThrew
  \/ ScreenshotStartOver
  \/ ScreenshotHandleImport
  \/ ScreenshotClose
  \/ NoDialogOpen /\ Back

SpecShot == Init /\ [][NextShot]_vars

(***************************************************************************)
(* The three parsers on the same delimited texts; a behaviour is one call  *)
(***************************************************************************)

Roles == {"category", "budget", "actual", "costCenter", "glAccount", "period"}

\* header lines: plain; two headers with a category word; one header with a
\* category word and an account word; two headers with a budget word; with a
\* period; without the required columns
HeaderLines ==
  {<<"C", "a", "t", "e", "g", "o", "r", "y", ",", "B", "u", "d", "g", "e", "t", ",", "A", "c", "t", "u", "a", "l">>,
   <<"I", "t", "e", "m", ",", "C", "a", "t", "e", "g", "o", "r", "y", ",", "B", "u", "d", "g", "e", "t", ",", "A", "c", "t", "u", "a", "l">>,
   <<"A", "c", "c", "o", "u", "n", "t", " ", "N", "a", "m", "e", ",", "B", "u", "d", "g", "e", "t", ",", "A", "c", "t", "u", "a", "l">>,
   <<"N", "a", "m", "e", ",", "B", "u", "d", "g", "e", "t", ",", "A", "c", "t", "u", "a", "l", ",", "B", "u", "d", "g", "e", "t", " ", "N", "o", "t", "e", "s">>,
   <<"C", "a", "t", "e", "g", "o", "r", "y", ",", "P", "e", "r", "i", "o", "d", ",", "B", "u", "d", "g", "e", "t", ",", "A", "c", "t", "u", "a", "l">>,
   <<"N", "o", "t", "e", "s", ",", "A", "m", "o", "u", "n", "t">>}

\* data lines: plain; an empty category cell with a currency amount and an
\* amount in parentheses; empty cells only; four fields; two fields
DataLines ==
  {<<"R", "e", "n", "t", ",", "1", "0", "0", ",", "1", "2", "0">>,
   <<",", "$", "5", "0", ",", "(", "5", "0", "0", ")">>,
   <<",", ",">>,
   <<"A", "d", "s", ",", "J", "a", "n", ",", "2", "0", "0", ",", "1", "5", "0">>,
   <<"A", "d", "s", ",", "7">>}

MaxDataLines == 2

\* the lists of at most n data lines
RECURSIVE LineLists(_)
LineLists(n) ==
  IF n = 0 THEN {<<>>}
  ELSE LineLists(n - 1)
       \cup {Append(ls, l) : ls \in LineLists(n - 1), l \in DataLines}

ParseTexts ==
  {join(<<h>> \o ls, <<"\n">>) : h \in HeaderLines, ls \in LineLists(MaxDataLines)}

\* the words of each role in the three column detections
WizardWords ==
  [r \in Roles |->
     Range((CHOOSE e \in Range(COMMON_COLUMN_NAMES) : e.field = r).aliases)]

FileWords == [r \in Roles |-> Range(ColumnOptions[r])]

\* the 1-based index of the first header equal to h, 0 if there is none
IndexOf(headers, h) ==
  IF \E i \in 1..Len(headers) : headers[i] = h
  THEN Min({i \in 1..Len(headers) : headers[i] = h})
  ELSE 0

\* what a column detection did on a header list: for each role the headers
\* that contain one of its words, and the header it chose (0: none)
Resolution(headers, words, assigned) ==
  [headers |-> headers,
   matches |-> [r \in Roles |->
                  {i \in 1..Len(headers) :
                     \E w \in words[r] :
                       includes(toLowerCase(headers[i]), toLowerCase(w))}],
   assigned |-> assigned]

\* the paste path on a text: parseClipboardText, the detected mapping kept,
\* handleProceedToPreview, handleImport
PastePath ==
  /\ call = NoCall
  /\ \E text \in ParseTexts \cup {PastedTabbed} :
       \E r \in {parseClipboardText(text)} :
       LET valid == r.ok /\ validateMapping(r.mapping)
       IN  call' =
             [fn |-> "paste", text |-> text,
              resolution |-> Resolution(r.headers, WizardWords,
                               [role \in Roles |-> IndexOf(r.headers, r.mapping[role])]),
              accepted |-> Len(r.rows),
              cells |-> IF valid
                        THEN [k \in 1..Len(r.rows) |->
                                [budget |-> Lookup(r.rows[k], r.mapping.budget),
                                 actual |-> Lookup(r.rows[k], r.mapping.actual)]]
                        ELSE <<>>,
              result |-> IF valid
                         THEN Success(WizardImportData(r.rows, r.headers, r.mapping,
                                                       [k \in 1..Len(r.rows) |-> 1]))
                         ELSE Failure(IF r.ok
                                      THEN "Please map Category, Budget, and Actual columns"
                                      ELSE r.error)]
  /\ UNCHANGED <<currentView, data, chatHistory, settings, filters, isLoading,
                 isParsing, landingError, fileParses, origin, edits, projectVars,
                 uploadVars, wizard, screenshot>>

\* a text saved as data.csv: the name, and the sheet Papa.parse reads from
\* it, the fields of each non-empty line
CsvFile(text) ==
  LET lines == SelectSeq(split(text, "\n"), LAMBDA l : l # <<>>)
  IN  [name |-> <<"d", "a", "t", "a", ".", "c", "s", "v">>,
       sheet |-> [i \in 1..Len(lines) |->
                    [j \in 1..Len(split(lines[i], ",")) |->
                       Str(split(lines[i], ",")[j])]]]

ParseFiles == {[text |-> text, file |-> CsvFile(text)] : text \in ParseTexts}

\* the file path on a text saved as data.csv: parseFile
FilePath ==
  /\ call = NoCall
  /\ \E f \in ParseFiles :
       \E headers \in {[j \in 1..Len(f.file.sheet[1]) |-> f.file.sheet[1][j].s]} :
       \E col \in {DetectedColumns(headers)} :
       \E result \in {parseFile(f.file, [k \in 1..Len(f.file.sheet) |-> k])} :
       LET rawData == [r \in 1..(Len(f.file.sheet) - 1) |->
                         RowObj(headers, f.file.sheet[r + 1])]
           kept == SelectSeq(rawData, LAMBDA row : Truthy(Lookup(row, col.category)))
       IN  call' =
             [fn |-> "file", text |-> f.text,
              resolution |-> Resolution(headers, FileWords,
                               [role \in Roles |-> IndexOf(headers, col[role])]),
              accepted |-> Len(rawData),
              cells |-> IF result.ok
                        THEN [k \in 1..Len(kept) |->
                                [budget |-> Lookup(kept[k], col.budget),
                                 actual |-> Lookup(kept[k], col.actual)]]
                        ELSE <<>>,
              result |-> result]
  /\ UNCHANGED <<currentView, data, chatHistory, settings, filters, isLoading,
                 isParsing, landingError, fileParses, origin, edits, projectVars,
                 uploadVars, wizard, screenshot>>

\* the screenshot path on a text the extraction returned: handleImport with
\* parseCSVToData
ScreenshotPath ==
  /\ call = NoCall
  /\ \E csv \in ParseTexts \cup {ExtractedPlan} :
       \E lines \in {split(trim(csv), "\n")} :
       \E headers \in {CsvHeaders(lines[1])} :
       \E idx \in {DetectedIndexes(headers)} :
       \E result \in {ScreenshotImportData(csv, [k \in 1..Len(lines) |-> k])} :
       LET kept == SelectSeq([i \in 1..(Len(lines) - 1) |-> CsvValues(lines[i + 1])],
                             LAMBDA values : Len(values) >= 3)
       IN  call' =
             [fn |-> "screenshot", text |-> csv,
              resolution |-> Resolution(headers, ScreenshotWords, idx),
              accepted |-> Len(kept),
              cells |-> IF result.ok
                        THEN [k \in 1..Len(kept) |->
                                [budget |-> ValueAt(kept[k], idx.budget),
                                 actual |-> ValueAt(kept[k], idx.actual)]]
                        ELSE <<>>,
              result |-> result]
  /\ UNCHANGED <<currentView, data, chatHistory, settings, filters, isLoading,
                 isParsing, landingError, fileParses, origin, edits, projectVars,
                 uploadVars, wizard, screenshot>>

NextParse ==
  \/ PastePath
  \/ FilePath
  \/ ScreenshotPath

SpecParse == Init /\ [][NextParse]_vars

(***************************************************************************)
(* mergeFiles and handleImport on file lists                               *)
(***************************************************************************)

\* the states of a file of the list: parsed with the dataset of one of its
\* parses, failed, or not parsed yet
MergeFileStates ==
  UNION {{UploadedFile(generateId(1), f, ids) : ids \in IdDraws(Len(f.sheet) - 1)} :
         f \in {BudgetCsv, ActualsCsv, DeptXlsx, RentsXls, NotesCsv}}
  \cup {PendingFile(generateId(1), ActualsCsv)}

\* the file lists of the dialog, of up to maxFiles files
MergeInputs ==
  UNION {{[k \in 1..n |-> [list[k] EXCEPT !.id = generateId(k)]] :
            list \in [1..n -> MergeFileStates]} : n \in 0..maxFiles}

\* the dialog open with a file list and a strategy
InitMerge ==
  /\ currentView = "landing"
  /\ data = NullData
  /\ settings = DEFAULT_SETTINGS
  /\ filters = NoFilters
  /\ isLoading = FALSE
  /\ isParsing = FALSE
  /\ landingError = ""
  /\ fileParses = {}
  /\ origin = [path |-> "none", settings |-> DEFAULT_SETTINGS]
  /\ edits = 0
  /\ projects = <<>>
  /\ currentProject = NoProject
  /\ showMultiUpload = TRUE
  /\ files \in MergeInputs
  /\ mergeStrategy \in MergeStrategies
  /\ isProcessing = FALSE
  /\ uploadError = ""
  /\ selects = <<>>
  /\ mergeCall = NoMergeCall
  /\ chatHistory = <<>>
  /\ wizard = NoWizard
  /\ screenshot = NoScreenshot
  /\ call = NoCall

\* handleImport called on the list, whatever the Import button allows
HandleImportCall ==
  /\ showMultiUpload
  /\ ~mergeCall.ran
  /\ handleImport

SpecMerge == InitMerge /\ [][HandleImportCall]_vars

(***************************************************************************)
(* Properties                                                              *)
(***************************************************************************)

\* abs(percentVariance) > thresholdPercent OR abs(dollarVariance) >
\* thresholdDollar, on the exact rational percentVariance
SignificantUnder(row, thresholdPercent, thresholdDollar) ==
  \/ Abs(row.percentVariance.num) > thresholdPercent * row.percentVariance.den
  \/ Abs(row.dollarVariance) > thresholdDollar

LoadedRows == IF data # NullData THEN data.rows ELSE <<>>

\* C1: in every reachable state every record of the loaded dataset has
\* dollarVariance = actual - budget, and percentVariance = 0 when budget = 0,
\* otherwise percentVariance = dollarVariance / budget * 100 (checked
\* exactly: num / den = dollarVariance * 100 / budget).
C1_VarianceIdentities ==
  \A i \in 1..Len(LoadedRows) :
    /\ LoadedRows[i].dollarVariance = LoadedRows[i].actual - LoadedRows[i].budget
    /\ LoadedRows[i].percentVariance.den > 0
    /\ IF LoadedRows[i].budget = 0
       THEN LoadedRows[i].percentVariance.num = 0
       ELSE LoadedRows[i].percentVariance.num * LoadedRows[i].budget
              = LoadedRows[i].dollarVariance * 100 * LoadedRows[i].percentVariance.den

\* a merged dataset with a zero-budget record of non-zero variance, after a
\* threshold change and a workflow update
C1_Witness ==
  /\ origin.path = "merge"
  /\ edits > 0
  /\ settings # DEFAULT_SETTINGS
  /\ \E i \in 1..Len(LoadedRows) :
       LoadedRows[i].budget = 0 /\ LoadedRows[i].dollarVariance # 0
  /\ \E i \in 1..Len(LoadedRows) :
       LoadedRows[i].budget # 0 /\ LoadedRows[i].dollarVariance # 0

\* C2: every record built by the file, paste and screenshot paths has
\* isSignificant equal to the OR rule under the thresholds configured when the
\* record was built.
C2_BuiltUnderCurrentThresholds ==
  origin.path \in {"file", "paste", "screenshot"} =>
    \A i \in 1..Len(LoadedRows) :
      LoadedRows[i].isSignificant =
        SignificantUnder(LoadedRows[i], origin.settings.varianceThresholdPercent,
                         origin.settings.varianceThresholdDollar)

\* C3: applyThresholds(rows, p, d) returns as many records in the same order,
\* each equal to its input except for isSignificant, which is the OR rule with
\* strict comparisons.
C3_ApplyThresholdsFrame ==
  \A p \in PercentChoices : \A d \in DollarChoices :
    /\ Len(applyThresholds(LoadedRows, p, d)) = Len(LoadedRows)
    /\ \A i \in 1..Len(LoadedRows) :
         /\ applyThresholds(LoadedRows, p, d)[i] =
              [LoadedRows[i] EXCEPT !.isSignificant =
                 applyThresholds(LoadedRows, p, d)[i].isSignificant]
         /\ applyThresholds(LoadedRows, p, d)[i].isSignificant =
              SignificantUnder(LoadedRows[i], p, d)

\* a record whose percent variance equals the percent threshold and whose
\* dollar variance does not exceed the dollar threshold is stored as
\* significant and classified as not significant
C3_Witness ==
  \E i \in 1..Len(LoadedRows) :
    /\ LoadedRows[i].percentVariance =
         [num |-> settings.varianceThresholdPercent, den |-> 1]
    /\ LoadedRows[i].isSignificant
    /\ ~dataWithThresholds[i].isSignificant

\* C4: applyThresholds is idempotent.
C4_ApplyThresholdsIdempotent ==
  \A p \in PercentChoices : \A d \in DollarChoices :
    applyThresholds(applyThresholds(LoadedRows, p, d), p, d)
      = applyThresholds(LoadedRows, p, d)

\* the classification changed the stored flag of a record, and classifying
\* its result again changes nothing
C4_Witness ==
  /\ \E i \in 1..Len(LoadedRows) :
       dataWithThresholds[i].isSignificant # LoadedRows[i].isSignificant
  /\ applyThresholds(dataWithThresholds, settings.varianceThresholdPercent,
                     settings.varianceThresholdDollar) = dataWithThresholds

\* C8: within the loaded dataset, whichever ingestion path or merge produced
\* it, no two records have the same id.
C8_UniqueIds ==
  \A i \in 1..Len(LoadedRows) : \A j \in 1..Len(LoadedRows) :
    i # j => LoadedRows[i].id # LoadedRows[j].id


\* the flag a view gets for a record must be the rule under the thresholds
\* in force
HandedUnderSettings(handed) ==
  \A i \in 1..Len(handed) :
    handed[i].isSignificant =
      SignificantUnder(handed[i], settings.varianceThresholdPercent,
                       settings.varianceThresholdDollar)

\* C5: after any sequence of loads, project loads, threshold changes and
\* workflow updates, every record handed to the filter, the KPI dashboard,
\* the chat and the export (dataWithThresholds) and to the table
\* (filteredData) has isSignificant equal to the OR rule under the current
\* thresholds, whatever the stored record carries.
C5_HandedRecordsCurrent ==
  /\ Len(dataWithThresholds) = Len(LoadedRows)
  /\ HandedUnderSettings(dataWithThresholds)
  /\ HandedUnderSettings(filteredData)

\* a loaded project, with thresholds other than the defaults and a workflow
\* update, one of whose records is stored as significant, handed on as not
\* significant and so kept from the table by the significant-only filter
C5_Witness ==
  /\ origin.path = "project"
  /\ edits > 0
  /\ settings # DEFAULT_SETTINGS
  /\ filters.showOnlySignificant
  /\ \E i \in 1..Len(LoadedRows) :
       /\ LoadedRows[i].isSignificant
       /\ ~dataWithThresholds[i].isSignificant
       /\ dataWithThresholds[i] \notin Range(filteredData)
  /\ filteredData # <<>>

\* the datasets mergeFiles read at its last call, in list order
MergedSources == [k \in 1..Len(ParsedFiles(mergeCall.files)) |->
                    ParsedFiles(mergeCall.files)[k].data]

\* C6: a budget + actual merge of two datasets returns one record per record
\* of the budget source, with that record's budget; its actual is the actual
\* of the actual-source record with the same (category, costCenter,
\* glAccount, period) key (the last such record if several have the key),
\* and the record's budget if no actual-source record has the key.
C6_PairingMerge ==
  (mergeCall.ran /\ mergeCall.mergeStrategy = "budget-actual" /\ Len(MergedSources) = 2) =>
    /\ Len(mergeCall.result.rows) = Len(MergedSources[1].rows)
    /\ \A i \in 1..Len(MergedSources[1].rows) :
         LET row == MergedSources[1].rows[i]
             matching == {j \in 1..Len(MergedSources[2].rows) :
                            JoinKey(MergedSources[2].rows[j]) = JoinKey(row)}
         IN  /\ mergeCall.result.rows[i].budget = row.budget
             /\ matching # {} =>
                  mergeCall.result.rows[i].actual = MergedSources[2].rows[Max(matching)].actual
             /\ matching = {} =>
                  /\ mergeCall.result.rows[i].actual = row.budget
                  /\ mergeCall.result.rows[i].dollarVariance = 0

\* a pairing merge in which one budget record took the actual of its match
\* and another, without a match, fell back from a different actual to its
\* budget
C6_Witness ==
  /\ mergeCall.ran /\ mergeCall.mergeStrategy = "budget-actual"
  /\ Len(MergedSources) = 2
  /\ data = mergeCall.result
  /\ \E i \in 1..Len(MergedSources[1].rows) :
       /\ \E j \in 1..Len(MergedSources[2].rows) :
            JoinKey(MergedSources[2].rows[j]) = JoinKey(MergedSources[1].rows[i])
       /\ data.rows[i].actual # MergedSources[1].rows[i].actual
  /\ \E i \in 1..Len(MergedSources[1].rows) :
       /\ \A j \in 1..Len(MergedSources[2].rows) :
            JoinKey(MergedSources[2].rows[j]) # JoinKey(MergedSources[1].rows[i])
       /\ MergedSources[1].rows[i].actual # MergedSources[1].rows[i].budget
       /\ data.rows[i].actual = data.rows[i].budget

\* C7: a stack merge returns one record per record of the parsed sources, in
\* source order: as many rows as the sources have together, each equal to
\* its source record except for the id.
C7_StackMerge ==
  (mergeCall.ran /\ mergeCall.mergeStrategy = "stack" /\ Len(MergedSources) >= 2) =>
    LET sourceRows == Flatten([k \in 1..Len(MergedSources) |-> MergedSources[k].rows])
    IN  /\ Len(mergeCall.result.rows) = Len(sourceRows)
        /\ \A i \in 1..Len(sourceRows) :
             [mergeCall.result.rows[i] EXCEPT !.id = sourceRows[i].id] = sourceRows[i]

\* a stack merge of three parsed files with different records, imported
C7_Witness ==
  /\ mergeCall.ran /\ mergeCall.mergeStrategy = "stack"
  /\ Len(MergedSources) = 3
  /\ MergedSources[1].rows # MergedSources[3].rows
  /\ data = mergeCall.result
  /\ Len(data.rows) > Len(MergedSources[1].rows) + Len(MergedSources[2].rows)

\* C9: with one parsed file mergeFiles returns its dataset unchanged under
\* either strategy; with none the handler reports an error, onImport is not
\* called and the dialog stays open with its list.
C9_SingleOrNone ==
  mergeCall.ran =>
    /\ Len(MergedSources) = 1 =>
         /\ mergeCall.result = MergedSources[1]
         /\ data = MergedSources[1]
    /\ Len(MergedSources) = 0 =>
         /\ mergeCall.result = NullData
         /\ uploadError = "No valid data to import"
         /\ ~isProcessing
         /\ data = NullData /\ currentView = "landing" /\ origin.path = "none"
         /\ showMultiUpload /\ files = mergeCall.files

\* handleImport ran on a list of two files, neither parsed, and left the
\* error in the open dialog
C9_Witness ==
  /\ mergeCall.ran
  /\ Len(mergeCall.files) = 2 /\ Len(MergedSources) = 0
  /\ showMultiUpload /\ uploadError # ""

\* C10: when mergeFiles runs, no file of the list has status pending or
\* parsing.
C10_MergeAfterIngestion ==
  mergeCall.ran =>
    \A i \in 1..Len(mergeCall.files) :
      mergeCall.files[i].status \notin {"pending", "parsing"}

\* C11: when a budget + actual merge runs on two or more parsed files, the
\* budget source is the first file of the upload list and the actual source
\* the second (the entries the dialog labels 'Budget' and 'Actual'),
\* whatever the parse outcome of each file of the list.
C11_PairingSources ==
  (mergeCall.ran /\ mergeCall.mergeStrategy = "budget-actual"
     /\ Len(ParsedFiles(mergeCall.files)) >= 2) =>
    /\ ParsedFiles(mergeCall.files)[1] = mergeCall.files[1]
    /\ ParsedFiles(mergeCall.files)[2] = mergeCall.files[2]

C13_MetadataConsistent ==
  data # NullData =>
    /\ \A i \in 1..(Len(data.periods) - 1) : StrLess(data.periods[i], data.periods[i + 1])
    /\ Range(data.periods) = {p \in {data.rows[i].period : i \in 1..Len(data.rows)} :
                                IsTruthyStr(p)}
    /\ \A i \in 1..Len(data.rows) :
         /\ ~data.hasCostCenter => data.rows[i].costCenter = Undefined
         /\ ~data.hasGLAccount => data.rows[i].glAccount = Undefined
         /\ ~data.hasPeriod => data.rows[i].period = Undefined

\* the required roles of a mapping are each assigned to a detected header
RequiredRolesMapped(mapping, headers) ==
  \A field \in {"category", "budget", "actual"} :
    mapping[field] # <<>> /\ mapping[field] \in Range(headers)

\* C14: record building never runs on an unvalidated mapping.  In the paste
\* wizard, after any sequence of paste, text change, column selection,
\* Continue and Back, the preview step (the only one with the Import button)
\* and every handleImport call have category, budget and actual each
\* assigned to one of the detected headers; a dataset of the file or
\* screenshot path exists only if the column detection resolved the three
\* required roles on its headers.
C14_ValidatedBeforeBuilding ==
  /\ wizard.step = "preview" =>
       RequiredRolesMapped(wizard.mapping, wizard.detectedColumns)
  /\ call.fn = "handleImport" =>
       RequiredRolesMapped(call.mapping, call.detectedColumns)
  /\ (data # NullData /\ origin.path = "file") =>
       \A field \in {"category", "budget", "actual"} :
         DetectedColumns(data.columns)[field] # Null
  /\ (data # NullData /\ origin.path = "screenshot") =>
       \A field \in {"category", "budget", "actual"} :
         DetectedIndexes(data.columns)[field] # 0

\* the wizard imported with a mapping whose actual role the user pointed at
\* another header than the detected one, after a paste that replaced an
\* earlier dataset of the file path
C14_Witness ==
  /\ call.fn = "handleImport"
  /\ origin.path = "paste"
  /\ call.mapping.actual # AutoMap(call.detectedColumns, EmptyMapping).actual
  /\ call.mapping.period # AutoMap(call.detectedColumns, EmptyMapping).period
  /\ Len(data.rows) = Len(call.parsedRows)

\* C15: in the three automatic column detections, a role is assigned the
\* first header that contains one of its words and is not taken by another
\* role (a later matching header never replaces it), and no header is
\* assigned to two roles.
C15_FirstMatchWins ==
  call.fn \in {"paste", "file", "screenshot"} =>
    /\ \A r \in Roles :
         call.resolution.assigned[r] # 0 =>
           \A j \in call.resolution.matches[r] :
             j < call.resolution.assigned[r] =>
               \E q \in Roles \ {r} : call.resolution.assigned[q] = j
    /\ \A r \in Roles : \A q \in Roles \ {r} :
         call.resolution.assigned[r] # 0 =>
           call.resolution.assigned[r] # call.resolution.assigned[q]

\* the number of data lines of a text that have as many fields as the header
\* line and at least one non-empty field
AcceptedLineCount(lines, delimiter) ==
  Cardinality({i \in 2..Len(lines) :
                 /\ Len(split(lines[i], delimiter)) = Len(split(lines[1], delimiter))
                 /\ \E j \in 1..Len(split(lines[i], delimiter)) :
                      trim(split(lines[i], delimiter)[j]) # <<>>})

\* C16: when pasted text or extracted CSV text is parsed into a dataset, its
\* rows are the data lines whose field count equals the header field count
\* and that have at least one non-empty field; every other line is dropped.
C16_LineAcceptance ==
  (call.fn \in {"paste", "screenshot"} /\ call.result.ok) =>
    Len(call.result.data.rows) =
      AcceptedLineCount(split(trim(call.text), "\n"),
                        IF includes(split(trim(call.text), "\n")[1], <<"\t">>)
                        THEN "\t" ELSE ",")

\* C17: no path delivers a dataset without records: a text with fewer than
\* two non-empty lines, or whose data lines are all dropped, is an error for
\* pasted text, CSV files and extracted CSV text alike.
C17_NoEmptyDataset ==
  (call.fn \in {"paste", "file", "screenshot"} /\ call.result.ok) =>
    Len(call.result.data.rows) > 0

\* a step in which an ingestion fails: a parse, a validation or an
\* extraction sets an error message, or a file of the multi-file dialog gets
\* the status 'error'
FailedIngestion ==
  \/ landingError' \notin {"", landingError}
  \/ uploadError' \notin {"", uploadError}
  \/ \E f \in Range(files') : f.status = "error" /\ f \notin Range(files)
  \/ wizard'.error \notin {"", wizard.error}
  \/ screenshot'.error \notin {"", screenshot.error}

\* C18: a step in which an ingestion fails (file parse, paste parse or
\* mapping validation, screenshot extraction or parse, a file of the
\* multi-file dialog) changes none of the dataset, the current view, the
\* current project, the filters and the chat history.
C18_FailureLeavesState ==
  [][FailedIngestion =>
       UNCHANGED <<data, currentView, currentProject, filters, chatHistory>>]_vars

\* the screenshot import failed on a text without the required columns, on
\* the landing page, with a dataset loaded, a filter set and a project saved
C18_Witness ==
  /\ screenshot.error = "Could not identify Category, Budget, and Actual columns in extracted data"
  /\ currentView = "landing"
  /\ data # NullData
  /\ filters # NoFilters
  /\ currentProject # NoProject

\* C19: in every path the budget and the actual of a record are parseNumber
\* of the source cells.
C19_NumbersNormalized ==
  (call.fn \in {"paste", "file", "screenshot"} /\ call.result.ok) =>
    \A k \in 1..Len(call.result.data.rows) :
      /\ call.result.data.rows[k].budget = parseNumber(call.cells[k].budget)
      /\ call.result.data.rows[k].actual = parseNumber(call.cells[k].actual)

\* C20: a dataset has one record per accepted raw row, and every record has
\* a non-empty category (a row without a category cell is labelled "Row N").
C20_OneRecordPerRow ==
  (call.fn \in {"paste", "file", "screenshot"} /\ call.result.ok) =>
    /\ Len(call.result.data.rows) = call.accepted
    /\ \A k \in 1..Len(call.result.data.rows) :
         call.result.data.rows[k].category # <<>>

\* C21: in the screenshot import a reply of the extraction that begins with
\* "ERROR:" is turned into an error: the stored CSV never begins with the
\* sentinel, and the step in which such a reply comes back leaves the stored
\* CSV, the wizard step and the loaded dataset as they were.
C21_ErrorReplyRejected ==
  /\ [](~startsWith(screenshot.extractedCSV, ErrorPrefix))
  /\ [][\A reply \in ExtractReplies :
          (startsWith(reply, ErrorPrefix) /\ ScreenshotExtractReturned(reply)) =>
            /\ screenshot'.extractedCSV = screenshot.extractedCSV
            /\ screenshot'.step = screenshot.step
            /\ screenshot'.error = "no table"
            /\ data' = data /\ currentView' = currentView]_vars

\* the sentinel reply has come back for a selected image: its reason is shown
\* on the preview step and nothing was stored
C21_Witness ==
  /\ screenshot.isOpen /\ screenshot.step = "preview" /\ screenshot.imageData
  /\ screenshot.error = "no table"
  /\ screenshot.extractedCSV = NoCsv
  /\ screenshot.extracting = 0

\* C30: in the screenshot import a reply that comes back after Start Over or
\* after the dialog was closed changes nothing: the result step is shown only
\* with an image selected, and without an image the wizard is on the upload
\* step with no extracted CSV.
C30_ResultImpliesImage ==
  /\ screenshot.step = "result" => screenshot.imageData
  /\ ~screenshot.imageData =>
       screenshot.step = "upload" /\ screenshot.extractedCSV = NoCsv


\* the record at position k after the update of one field
UpdatedRecord(row, updates) ==
  CASE updates.field = "status" -> [row EXCEPT !.status = updates.status]
    [] updates.field = "isStarred" -> [row EXCEPT !.isStarred = updates.isStarred]
    [] updates.field = "owner" -> [row EXCEPT !.owner = updates.owner]
    [] updates.field = "rootCause" -> [row EXCEPT !.rootCause = updates.rootCause]
    [] updates.field = "dueDate" -> [row EXCEPT !.dueDate = updates.dueDate]
    [] updates.field = "explanation" -> [row EXCEPT !.explanation = updates.explanation]

\* exactly the record at position k gets the named field, nothing else moves
OnlyRecordChanged(k, updates) ==
  /\ Len(data'.rows) = Len(data.rows)
  /\ data'.rows[k] = UpdatedRecord(data.rows[k], updates)
  /\ \A j \in 1..Len(data.rows) : j # k => data'.rows[j] = data.rows[j]
  /\ data' = [data EXCEPT !.rows = data'.rows]

\* C22: a workflow update sent from a rendered row changes only the named
\* field of that one record: the records before and after it, the other
\* fields of the record, and the dataset's columns, flags and periods are
\* the same.
C22_UpdateFrame ==
  [][\A k \in 1..(IF data = NullData THEN 0 ELSE Len(data.rows)) :
       \A updates \in TableUpdates(data.rows[k]) :
         UpdateRowWith(data.rows[k].id, updates) => OnlyRecordChanged(k, updates)]_vars

\* the same with the ids of the loaded records distinct
C22_UpdateFrameDistinctIds ==
  [][\A k \in 1..(IF data = NullData THEN 0 ELSE Len(data.rows)) :
       \A updates \in TableUpdates(data.rows[k]) :
         (C8_UniqueIds /\ UpdateRowWith(data.rows[k].id, updates))
           => OnlyRecordChanged(k, updates)]_vars


\* the groups of a groupData call
Groups == IF call.fn = "groupData" THEN call.result ELSE <<>>

\* the dimension value a record is grouped by, "Unassigned" when it has none
DimensionOf(row) ==
  LET v == row[call.groupBy]
  IN  IF v = Undefined \/ v = <<>> THEN Unassigned ELSE v

\* C23: groupData partitions its input: the keys of the groups are distinct,
\* each group holds exactly the input records of its key (the dimension
\* value, "Unassigned" when missing), every record is in a group, and the
\* totals of a group are the sums over its members, the difference of the
\* sums, and the percentage of the sums (0 for a zero budget total).
C23_GroupsPartition ==
  call.fn = "groupData" =>
    /\ \A i, j \in 1..Len(Groups) : i # j => Groups[i].key # Groups[j].key
    /\ \A k \in 1..Len(call.rows) :
         \E i \in 1..Len(Groups) : Groups[i].key = DimensionOf(call.rows[k])
    /\ \A i \in 1..Len(Groups) :
         LET g == Groups[i]
             members == SelectSeq(call.rows, LAMBDA r : DimensionOf(r) = g.key)
         IN  /\ g.rows = members
             /\ g.rows # <<>>
             /\ g.totalBudget = SumBudget(members)
             /\ g.totalActual = SumActual(members)
             /\ g.totalDollarVariance = g.totalActual - g.totalBudget
             /\ g.totalBudget = 0 => g.totalPercentVariance = RatZero
             /\ g.totalBudget # 0 =>
                  g.totalPercentVariance.num * g.totalBudget
                    = g.totalDollarVariance * 100 * g.totalPercentVariance.den

\* a call with an "Unassigned" group of an absent and an empty value next to
\* another group, one group with a zero budget total, and one whose
\* percentage differs from that of each member
C23_Witness ==
  /\ call.fn = "groupData"
  /\ Len(Groups) = 2
  /\ \E i \in 1..2 :
       /\ Groups[i].key = Unassigned
       /\ Len(Groups[i].rows) = 2
       /\ Groups[i].rows[1][call.groupBy] # Groups[i].rows[2][call.groupBy]
       /\ \A m \in 1..2 : Groups[i].rows[m].percentVariance # Groups[i].totalPercentVariance
  /\ \E i \in 1..2 : Groups[i].totalBudget = 0 /\ Groups[i].totalActual # 0

\* the position at which a key is first seen in the input
FirstSeen(key) == Min({k \in 1..Len(call.rows) : DimensionOf(call.rows[k]) = key})

\* C24: the groups come ordered by abs(totalDollarVariance) descending, and
\* groups with equal abs(totalDollarVariance) in the order in which their
\* keys were first seen in the input.
C24_GroupOrder ==
  call.fn = "groupData" =>
    \A i, j \in 1..Len(Groups) :
      i < j =>
        /\ Abs(Groups[i].totalDollarVariance) >= Abs(Groups[j].totalDollarVariance)
        /\ Abs(Groups[i].totalDollarVariance) = Abs(Groups[j].totalDollarVariance)
             => FirstSeen(Groups[i].key) < FirstSeen(Groups[j].key)

\* three groups, the first one seen last, the other two tied (+10 and -10)
C24_Witness ==
  /\ call.fn = "groupData"
  /\ Len(Groups) = 3
  /\ FirstSeen(Groups[1].key) = 3
  /\ Groups[2].totalDollarVariance = - Groups[3].totalDollarVariance
  /\ Groups[2].totalDollarVariance # 0


\* the text the free-text search is matched against
SearchText(row) ==
  toLowerCase(join(SelectSeq(<<row.category, row.costCenter, row.glAccount,
                               row.owner, row.explanation>>, IsTruthyStr), <<" ">>))

\* a record satisfies the filter: every active predicate holds, a non-empty
\* list being satisfied by a member of the list
Satisfies(row, f) ==
  /\ f.search # <<>> => includes(SearchText(row), toLowerCase(f.search))
  /\ Len(f.costCenters) > 0 => row.costCenter \in Range(f.costCenters)
  /\ Len(f.glAccounts) > 0 => row.glAccount \in Range(f.glAccounts)
  /\ Len(f.periods) > 0 => row.period \in Range(f.periods)
  /\ Len(f.statuses) > 0 => row.status \in Range(f.statuses)
  /\ Len(f.owners) > 0 => row.owner \in Range(f.owners)
  /\ f.showOnlySignificant => row.isSignificant
  /\ f.showOnlyStarred => row.isStarred

\* C25: filterData returns exactly the records that satisfy every active
\* predicate: with a non-empty cost-center, GL-account, period, status or
\* owner list every returned record's value of that facet is in the list.
C25_ExactlyTheMatches ==
  call.fn = "filterData" =>
    call.result = SelectSeq(call.rows, LAMBDA row : Satisfies(row, call.filterState))

\* the same for the status and owner lists, the flags and the search alone
C25_StatusOwnerFlagsExact ==
  (/\ call.fn = "filterData"
   /\ call.filterState.costCenters = <<>> /\ call.filterState.glAccounts = <<>>
   /\ call.filterState.periods = <<>>) =>
    call.result = SelectSeq(call.rows, LAMBDA row : Satisfies(row, call.filterState))

RECURSIVE IsSubsequence(_, _)
IsSubsequence(a, b) ==
  IF a = <<>> THEN TRUE
  ELSE IF b = <<>> THEN FALSE
  ELSE IF Head(a) = Head(b) THEN IsSubsequence(Tail(a), Tail(b))
  ELSE IsSubsequence(a, Tail(b))

\* C26: the result of filterData is a subsequence of its input; a record is
\* left out only if it fails a predicate that is active (a non-empty list, a
\* true flag, a non-empty search), so the all-empty filter returns the input
\* and showOnlySignificant alone returns exactly the significant records.
C26_SubsequenceAndNeutral ==
  call.fn = "filterData" =>
    /\ IsSubsequence(call.result, call.rows)
    /\ \A k \in 1..Len(call.rows) :
         call.rows[k] \notin Range(call.result)
           => ~Satisfies(call.rows[k], call.filterState)
    /\ call.filterState = NoFilters => call.result = call.rows
    /\ call.filterState = [NoFilters EXCEPT !.showOnlySignificant = TRUE]
         => call.result = SelectSeq(call.rows, LAMBDA row : row.isSignificant)

\* showOnlySignificant alone on three records keeps the first and the third
C26_Witness ==
  /\ call.fn = "filterData"
  /\ call.filterState = [NoFilters EXCEPT !.showOnlySignificant = TRUE]
  /\ Len(call.rows) = 3
  /\ call.result = <<call.rows[1], call.rows[3]>>
  /\ call.rows[1] # call.rows[3]


\* a record is overdue at an instant: it has a due date that lies strictly
\* before the instant, and its status is neither explained nor closed
OverdueRule(row, instant) ==
  /\ row.dueDate # <<>>
  /\ ~DateOf(row.dueDate).invalid
  /\ \/ DateOf(row.dueDate).day < instant.day
     \/ DateOf(row.dueDate).day = instant.day /\ 0 < instant.ms
  /\ row.status \notin {"explained", "closed"}

\* C27: overdueCount is the number of records with a due date strictly
\* before the current time and a status that is neither explained nor
\* closed, and the table marks a row overdue under the same condition.
C27_OverdueCount ==
  call.fn = "calculateKPIs" =>
    /\ call.overdueCount
         = Cardinality({k \in 1..Len(call.rows) : OverdueRule(call.rows[k], call.today)})
    /\ \A k \in 1..Len(call.rows) :
         call.isOverdue[k] = OverdueRule(call.rows[k], call.now)

\* at midnight of the due date: the record due that day is not counted, the
\* one due the day before is, and the table, a millisecond later, marks both
C27_Witness ==
  /\ call.fn = "calculateKPIs"
  /\ Len(call.rows) = 2
  /\ call.rows[1].dueDate = <<"2", "0", "2", "4", "-", "0", "1", "-", "1", "4">>
  /\ call.rows[2].dueDate = <<"2", "0", "2", "4", "-", "0", "1", "-", "1", "5">>
  /\ call.rows[1].status = "investigating" /\ call.rows[2].status = "investigating"
  /\ call.today.ms = 0 /\ call.now.ms = 1
  /\ call.overdueCount = 1
  /\ call.isOverdue = <<TRUE, TRUE>>


\* C28: a loaded dataset is replaced only by a load the user started after
\* it was loaded.  A sample timer still pending in the analysis view was
\* started on the landing page before the dataset shown was loaded, and a
\* parse whose landing page is unmounted was started before the load that
\* unmounted it: neither may change the dataset when it completes.
C28_NoStaleOverwrite ==
  [][/\ (isLoading /\ ~isLoading' /\ currentView = "analysis") => data' = data
     /\ \A p \in fileParses :
          (~p.mounted /\ fileParses' = Unmounted(fileParses \ {p})) => data' = data]_vars

\* the part of C28 about a file parse alone
C28_NoStaleParse ==
  [][\A p \in fileParses :
       (~p.mounted /\ fileParses' = Unmounted(fileParses \ {p})) => data' = data]_vars

\* the part of C28 about the sample timer alone
C28_NoStaleSample ==
  [][(isLoading /\ ~isLoading' /\ currentView = "analysis") => data' = data]_vars


\* two values of a dimension agree: both absent (undefined or empty), or the
\* same text
SameField(a, b) ==
  IF IsTruthyStr(a) /\ IsTruthyStr(b) THEN a = b
  ELSE ~IsTruthyStr(a) /\ ~IsTruthyStr(b)

SameDimensions(a, b) ==
  /\ SameField(a.category, b.category)
  /\ SameField(a.costCenter, b.costCenter)
  /\ SameField(a.glAccount, b.glAccount)
  /\ SameField(a.period, b.period)

\* C29: the join key of the pairing merge is injective on category,
\* costCenter, glAccount and period: a budget record is paired only with
\* actual records that agree with it in the four fields.
C29_JoinKeyInjective ==
  call.fn = "pairing" =>
    \A j \in call.holders : SameDimensions(call.row, call.actualRows[j])

=========================================================================
